---- MODULE Spec2Model ----
(***************************************************************************)
(* Verification model of the gateway Manager (pkg/gateway/manager.go)      *)
(* running with the PollingProvider (pkg/gateway/examples).                *)
(*                                                                         *)
(* Goroutines: the provider's Start, processEvents, periodicSync, the      *)
(* caller of Stop and a caller of GetBackends.  Channel sends and receives *)
(* and mutex acquisitions are separate steps.  syncBackendToHAProxy runs   *)
(* with m.mu held, so in the engine it is one step over every outcome of   *)
(* its target calls (Sync); SyncSpec follows it call by call.              *)
(***************************************************************************)
EXTENDS Integers, Sequences, FiniteSets, TLC

\* ------------------------------------------------------------------ bounds
\* Capacity of eventChan (ManagerConfig.EventChanSize).
QueueCap == 2

\* ------------------------------------------------------------ value domains
Names == {"g1"}

SrvA == [Name |-> "a", IP |-> "10.0.0.1", Port |-> 80]
SrvB == [Name |-> "b", IP |-> "10.0.0.2", Port |-> 80]

\* The server lists a Backend may carry.
ServerLists == {<<SrvA>>, <<SrvA, SrvB>>}

\* The server lists the fetch function returns for a given name.
ListsOf(n) == IF n = "g1" THEN ServerLists ELSE {<<SrvA>>}

\* gateway.Backend
Backend(n, l) == [Name |-> n, Servers |-> l]

\* gateway.BackendEvent
BackendEvent(t, b) == [Type |-> t, Backend |-> b]

BackendEventAdd == "ADD"
BackendEventUpdate == "UPDATE"
BackendEventDelete == "DELETE"

\* --------------------------------------------------------------- Go maps
EmptyMap == [n \in {} |-> 0]

\* m[k] = v
MapPut(m, k, v) == [n \in (DOMAIN m) \cup {k} |-> IF n = k THEN v ELSE m[n]]

\* delete(m, k)
MapDelete(m, k) == [n \in (DOMAIN m) \ {k} |-> m[n]]

Range(s) == {s[i] : i \in DOMAIN s}

\* Every map from a subset of Names to a Backend of that name: what the
\* fetchFunc may return (as newBackendsMap).
SourceStates ==
    UNION {{f \in [D -> {Backend(n, l) : n \in D, l \in ServerLists}] :
               \A n \in D : f[n].Name = n /\ f[n].Servers \in ListsOf(n)} :
           D \in SUBSET Names}

\* Goroutines that run syncBackendToHAProxy.
Activities == {"consumer", "reconcile"}

NoBackend == Backend("", <<>>)
NoEvent == BackendEvent("", NoBackend)

\* One entry of the record of calls an apply has issued to the target.
Call(op, arg, ok) == [op |-> op, arg |-> arg, ok |-> ok]

\* Frame of syncBackendToHAProxy when it is not running.
ApIdle ==
    [pc |-> "idle", b |-> NoBackend, i |-> 0, err |-> FALSE,
     failed |-> FALSE, calls |-> <<>>]

\* Frame of AddBackendRoute when it is not running.  Strings are sequences
\* of one-character strings.
RtIdle ==
    [pc |-> "idle", host |-> <<>>, path |-> <<>>, backendName |-> "",
     aclName |-> <<>>, err |-> FALSE, calls |-> <<>>]

\* The frontend of a target nothing has been added to: its ACLs (name ->
\* criterion) and backend switching rules, whether the frontend exists and
\* the names of its binds, each committed and in the open transaction.
FeEmpty ==
    [acls |-> EmptyMap, rules |-> {}, txAcls |-> EmptyMap, txRules |-> {},
     front |-> FALSE, binds |-> {}, txFront |-> FALSE, txBinds |-> {}]

\* Frame of configureFrontend when it is not running.
CfIdle ==
    [pc |-> "idle", HTTPSEnabled |-> FALSE, err |-> FALSE, calls |-> <<>>]

\* The caller of Manager.GetBackends holds no result.  A result is a map
\* of its own (ref "own", contents val) or the map m.backends itself (ref
\* "engine").
NoResult == [ref |-> "none", val |-> EmptyMap]

VARIABLES
    started,     \* Manager.Start has been called
    ctxDone,     \* the ctx given to Start is cancelled
    stopChan,    \* m.stopChan is closed
    eventChan,   \* the events buffered in m.eventChan, oldest first
    chanClosed,  \* m.eventChan is closed
    backends,    \* m.backends
    muWriter,    \* who holds m.mu exclusively ("none" when nobody)
    muPending,   \* a goroutine is blocked in m.mu.Lock()
    muReaders,   \* who holds m.mu shared
    cPc,         \* processEvents / handleBackendEvent: position
    cEv,         \* the event handleBackendEvent is working on
    rPc,         \* periodicSync / reconcile: position
    rList,       \* reconcile: what provider.GetBackends returned
    rTodo,       \* reconcile: names the range loop has not visited yet
    rCur,        \* reconcile: name of the range loop's current backend
    ap,          \* frame of a syncBackendToHAProxy call followed call by call
    lastSync,    \* per activity: how its last syncBackendToHAProxy ended
    tgt,         \* target: committed configuration, name -> set of servers
    txOpen,      \* target: a transaction is open
    txCfg,       \* target: working copy of the open transaction
    txStaged,    \* target: the open transaction has been committed
    pPc,         \* PollingProvider.Start / pollAndUpdate: position
    pBackends,   \* PollingProvider.backends
    pStopChan,   \* PollingProvider.stopChan is closed
    pMu,         \* PollingProvider.mu is held exclusively
    pNew,        \* pollAndUpdate: newBackendsMap
    pUp,         \* pollAndUpdate: names of the first loop not visited yet
    pDel,        \* pollAndUpdate: names of the second loop not visited yet
    fetchRange,  \* what fetchFunc can return when it succeeds
    stPc,        \* a caller of Manager.GetBackends: position
    sPc,         \* the caller of Manager.Stop: position
    inflight,    \* history: events sent on eventChan and not yet handled
    cDeleted,    \* history: names whose last handled event was a Delete
    rt,          \* frame of an HTTPGateway.AddBackendRoute call
    fe,          \* target: ACLs and switching rules of the frontend
    stRes,       \* what the caller of Manager.GetBackends holds as its result
    cf,          \* frame of an HTTPGateway.configureFrontend call
    rApplied     \* history: names whose current snapshot a reconcile pass
                 \* stored and applied, nothing sent or handled for them since

vars ==
    <<started, ctxDone, stopChan, eventChan, chanClosed, backends, muWriter,
      muPending, muReaders, cPc, cEv, rPc, rList, rTodo, rCur, ap, lastSync,
      tgt,
      txOpen,
      txCfg, txStaged, pPc, pBackends, pStopChan, pMu, pNew, pUp, pDel,
      fetchRange, stPc, sPc, inflight, cDeleted, rt, fe, stRes, cf,
      rApplied>>

managerVars == <<backends, muWriter, muPending, muReaders>>
consumerVars == <<cPc, cEv>>
reconcileVars == <<rPc, rList, rTodo, rCur>>
targetVars == <<tgt, txOpen, txCfg, txStaged>>
providerVars == <<pPc, pBackends, pStopChan, pMu, pNew, pUp, pDel, fetchRange>>
lifeVars == <<started, ctxDone, stopChan, chanClosed, sPc>>
syncVars == <<ap, lastSync>>

\* NewManager, NewPollingProvider: the state after construction.
Constructed ==
    /\ started = FALSE
    /\ ctxDone = FALSE
    /\ stopChan = FALSE
    /\ eventChan = <<>>
    /\ chanClosed = FALSE
    /\ backends = EmptyMap
    /\ muWriter = "none"
    /\ muPending = FALSE
    /\ muReaders = {}
    /\ cPc = "off"
    /\ cEv = NoEvent
    /\ rPc = "off"
    /\ rList = EmptyMap
    /\ rTodo = {}
    /\ rCur = ""
    /\ ap = ApIdle
    /\ lastSync = [a \in Activities |-> "none"]
    /\ tgt = EmptyMap
    /\ txOpen = FALSE
    /\ txCfg = EmptyMap
    /\ txStaged = FALSE
    /\ pPc = "off"
    /\ pBackends = EmptyMap
    /\ pStopChan = FALSE
    /\ pMu = FALSE
    /\ pNew = EmptyMap
    /\ pUp = {}
    /\ pDel = {}
    /\ stPc = "idle"
    /\ sPc = "idle"
    /\ inflight = <<>>
    /\ cDeleted = {}
    /\ rt = RtIdle
    /\ fe = FeEmpty
    /\ stRes = NoResult
    /\ cf = CfIdle
    /\ rApplied = {}

\* A fetchFunc over the whole value domain.
Init ==
    /\ Constructed
    /\ fetchRange = SourceStates

\* ------------------------------------------------------------ environment
\* The owner of ctx cancels it.
Cancel ==
    /\ started
    /\ ~ctxDone
    /\ ctxDone' = TRUE
    /\ UNCHANGED <<rApplied, cf, stRes, cDeleted, rt, fe, started, stopChan, chanClosed, sPc, eventChan, managerVars,
                   consumerVars, reconcileVars, syncVars, targetVars, providerVars, stPc, inflight>>

\* ------------------------------------------------------------ Manager.Start
\* Launches provider.Start, processEvents and periodicSync.
Start ==
    /\ ~started
    /\ started' = TRUE
    /\ pPc' = "poll"
    /\ cPc' = "select"
    /\ rPc' = "select"
    /\ UNCHANGED <<rApplied, cf, stRes, cDeleted, rt, fe, rCur, fetchRange, ctxDone, stopChan, chanClosed, sPc, eventChan, managerVars,
                   cEv, rList, rTodo, syncVars, targetVars, pBackends, pStopChan,
                   pMu, pNew, pUp, pDel, stPc, inflight>>

\* ------------------------------------------------------------- Manager.Stop
\* Mutant of WaitGroupDone: the provider goroutine is not in the wait group.
WaitGroupWithoutProvider == cPc = "exited" /\ rPc = "exited"

\* Mutant of WaitGroupDone: processEvents is not in the wait group.
WaitGroupWithoutConsumer == pPc = "exited" /\ rPc = "exited"

\* m.wg.Wait() returns: the three goroutines of Start have called wg.Done.
WaitGroupDone == pPc = "exited" /\ cPc = "exited" /\ rPc = "exited"

\* close(m.stopChan)
StopSignal ==
    /\ started
    /\ sPc = "idle"
    /\ stopChan' = TRUE
    /\ sPc' = "providerStop"
    /\ UNCHANGED <<rApplied, cf, stRes, cDeleted, rt, fe, started, ctxDone, chanClosed, eventChan, managerVars,
                   consumerVars, reconcileVars, syncVars, targetVars, providerVars, stPc, inflight>>

\* m.provider.Stop(): PollingProvider.Stop closes its own stopChan.
StopProvider ==
    /\ sPc = "providerStop"
    /\ pStopChan' = TRUE
    /\ sPc' = "wait"
    /\ UNCHANGED <<rApplied, cf, stRes, cDeleted, rt, fe, fetchRange, started, ctxDone, stopChan, chanClosed, eventChan,
                   managerVars, consumerVars, reconcileVars, syncVars, targetVars,
                   pPc, pBackends, pMu, pNew, pUp, pDel, stPc,
                   inflight>>

\* Mutant of StopWait: Stop goes on to close eventChan without waiting.
StopWaitSkipped ==
    /\ sPc = "wait"
    /\ sPc' = "close"
    /\ UNCHANGED <<rApplied, cf, stRes, cDeleted, rt, fe, started, ctxDone, stopChan, chanClosed, eventChan,
                   managerVars, consumerVars, reconcileVars, syncVars, targetVars,
                   providerVars, stPc, inflight>>

\* m.wg.Wait()
StopWait ==
    /\ sPc = "wait"
    /\ WaitGroupDone
    /\ sPc' = "close"
    /\ UNCHANGED <<rApplied, cf, stRes, cDeleted, rt, fe, started, ctxDone, stopChan, chanClosed, eventChan,
                   managerVars, consumerVars, reconcileVars, syncVars, targetVars,
                   providerVars, stPc, inflight>>

\* close(m.eventChan); return nil
StopClose ==
    /\ sPc = "close"
    /\ chanClosed' = TRUE
    /\ sPc' = "returned"
    /\ UNCHANGED <<rApplied, cf, stRes, cDeleted, rt, fe, started, ctxDone, stopChan, eventChan, managerVars,
                   consumerVars, reconcileVars, syncVars, targetVars, providerVars, stPc, inflight>>

\* ---------------------------------------------------------- PollingProvider
\* Mutant of backendsEqual: only the name and the number of servers count.
backendsEqualByLen(a, b) ==
    a.Name = b.Name /\ Len(a.Servers) = Len(b.Servers)

\* backendsEqual(a, b): aServers is built with later entries overwriting
\* earlier ones of the same Name.
backendsEqual(a, b) ==
    IF a.Name # b.Name \/ Len(a.Servers) # Len(b.Servers)
    THEN FALSE
    ELSE LET aNames == {a.Servers[i].Name : i \in DOMAIN a.Servers}
             last(nm) == CHOOSE i \in DOMAIN a.Servers :
                            /\ a.Servers[i].Name = nm
                            /\ \A j \in DOMAIN a.Servers :
                                  a.Servers[j].Name = nm => j <= i
             aServers == [nm \in aNames |-> a.Servers[last(nm)]]
         IN \A j \in DOMAIN b.Servers :
               /\ b.Servers[j].Name \in aNames
               /\ aServers[b.Servers[j].Name].IP = b.Servers[j].IP
               /\ aServers[b.Servers[j].Name].Port = b.Servers[j].Port

\* Names for which the first loop of pollAndUpdate sends Add or Update.
ChangedNames(old, new) ==
    {n \in DOMAIN new : n \notin DOMAIN old \/ ~backendsEqual(old[n], new[n])}

\* Mutant of RemovedNames: the second loop finds nothing to delete.
RemovedNamesNone(old, new) == {}

\* Names for which the second loop of pollAndUpdate sends Delete.
RemovedNames(old, new) == (DOMAIN old) \ (DOMAIN new)

\* eventChan <- e
Enqueue(q, e) == Append(q, e)

\* Mutant of ProviderPoll: a failed fetch forgets the stored snapshot.
ProviderPollForgetting ==
    /\ pPc = "poll"
    /\ \E ok \in BOOLEAN :
          IF ok
          THEN /\ ~pMu
               /\ UNCHANGED pBackends
               /\ \E new \in fetchRange :
                     /\ pNew' = new
                     /\ pUp' = ChangedNames(pBackends, new)
                     /\ pDel' = RemovedNames(pBackends, new)
               /\ pMu' = TRUE
               /\ pPc' = "emit"
          ELSE /\ pPc' = "failed"
               /\ pBackends' = EmptyMap
               /\ UNCHANGED <<fetchRange, pMu, pNew, pUp, pDel>>
    /\ UNCHANGED <<rApplied, cf, stRes, cDeleted, rt, fe, fetchRange, lifeVars, eventChan, managerVars, consumerVars,
                   reconcileVars, syncVars, targetVars, pStopChan, stPc, inflight>>

\* pollAndUpdate up to and including p.mu.Lock(): fetchFunc fails and the
\* poll returns the error to Start, or it succeeds and the diff loops start.
ProviderPoll ==
    /\ pPc = "poll"
    /\ \E ok \in BOOLEAN :
          IF ok
          THEN /\ ~pMu
               /\ \E new \in fetchRange :
                     /\ pNew' = new
                     /\ pUp' = ChangedNames(pBackends, new)
                     /\ pDel' = RemovedNames(pBackends, new)
                     /\ rApplied' = rApplied \ (ChangedNames(pBackends, new)
                                                \cup RemovedNames(pBackends, new))
               /\ pMu' = TRUE
               /\ pPc' = "emit"
          ELSE /\ pPc' = "failed"
               /\ UNCHANGED <<pMu, pNew, pUp, pDel, rApplied>>
    /\ UNCHANGED <<cf, stRes, cDeleted, rt, fe, fetchRange, lifeVars, eventChan, managerVars, consumerVars,
                   reconcileVars, syncVars, targetVars, pBackends, pStopChan, stPc, inflight>>

\* PollingProvider.Start logs the error pollAndUpdate returned and goes (back)
\* to its select.
ProviderLogError ==
    /\ pPc = "failed"
    /\ pPc' = "select"
    /\ UNCHANGED <<rApplied, cf, stRes, cDeleted, rt, fe, fetchRange, lifeVars, eventChan, managerVars, consumerVars,
                   reconcileVars, syncVars, targetVars, pBackends, pStopChan, pMu,
                   pNew, pUp, pDel, stPc, inflight>>

\* One iteration of the first loop that sends: a blocking send of Add (name
\* not in p.backends) or Update.
ProviderSendUpsert ==
    /\ pPc = "emit"
    /\ ~chanClosed
    /\ Len(eventChan) < QueueCap
    /\ \E n \in pUp :
          LET e == BackendEvent(IF n \in DOMAIN pBackends
                                THEN BackendEventUpdate
                                ELSE BackendEventAdd, pNew[n])
          IN /\ eventChan' = Enqueue(eventChan, e)
             /\ inflight' = Append(inflight, e)
             /\ pUp' = pUp \ {n}
    /\ UNCHANGED <<rApplied, cf, stRes, cDeleted, rt, fe, fetchRange, lifeVars, managerVars, consumerVars, reconcileVars, syncVars,
                   targetVars, pPc, pBackends, pStopChan, pMu, pNew, pDel, stPc>>

\* One iteration of the second loop that sends: a blocking send of Delete
\* carrying the old backend.
ProviderSendDelete ==
    /\ pPc = "emit"
    /\ pUp = {}
    /\ ~chanClosed
    /\ Len(eventChan) < QueueCap
    /\ \E n \in pDel :
          LET e == BackendEvent(BackendEventDelete, pBackends[n])
          IN /\ eventChan' = Enqueue(eventChan, e)
             /\ inflight' = Append(inflight, e)
             /\ pDel' = pDel \ {n}
    /\ UNCHANGED <<rApplied, cf, stRes, cDeleted, rt, fe, fetchRange, lifeVars, managerVars, consumerVars, reconcileVars, syncVars,
                   targetVars, pPc, pBackends, pStopChan, pMu, pNew, pUp, stPc>>

\* p.backends = newBackendsMap; return nil (deferred p.mu.Unlock()).
ProviderStore ==
    /\ pPc = "emit"
    /\ pUp = {}
    /\ pDel = {}
    /\ pBackends' = pNew
    /\ pNew' = EmptyMap
    /\ pMu' = FALSE
    /\ pPc' = "select"
    /\ UNCHANGED <<rApplied, cf, stRes, cDeleted, rt, fe, fetchRange, lifeVars, eventChan, managerVars, consumerVars,
                   reconcileVars, syncVars, targetVars, pStopChan, pUp, pDel, stPc, inflight>>

\* select in PollingProvider.Start: case <-ticker.C
ProviderTick ==
    /\ pPc = "select"
    /\ pPc' = "poll"
    /\ UNCHANGED <<rApplied, cf, stRes, cDeleted, rt, fe, fetchRange, lifeVars, eventChan, managerVars, consumerVars,
                   reconcileVars, syncVars, targetVars, pBackends, pStopChan, pMu,
                   pNew, pUp, pDel, stPc, inflight>>

\* select in PollingProvider.Start: case <-ctx.Done() or case <-p.stopChan
ProviderExit ==
    /\ pPc = "select"
    /\ (ctxDone \/ pStopChan)
    /\ pPc' = "exited"
    /\ UNCHANGED <<rApplied, cf, stRes, cDeleted, rt, fe, fetchRange, lifeVars, eventChan, managerVars, consumerVars,
                   reconcileVars, syncVars, targetVars, pBackends, pStopChan, pMu,
                   pNew, pUp, pDel, stPc, inflight>>

\* ------------------------------------------------------------------ target
\* The operations of api.HAProxyClient the Manager calls, on a configuration
\* that maps a backend name to its set of servers.
\* The second result of BackendCreateOrUpdate: the backend did not exist.
Created(cfg, name) == name \notin DOMAIN cfg

CreateOrUpdate(cfg, name) ==
    IF name \in DOMAIN cfg THEN cfg ELSE MapPut(cfg, name, {})

\* Mutant of DeleteAllServers: a group with a single server is left as it is.
DeleteAllServersSparesSingle(cfg, name) ==
    IF name \in DOMAIN cfg /\ Cardinality(cfg[name]) > 1
    THEN MapPut(cfg, name, {})
    ELSE cfg

DeleteAllServers(cfg, name) ==
    IF name \in DOMAIN cfg THEN MapPut(cfg, name, {}) ELSE cfg

CreateServer(cfg, name, srv) ==
    IF name \in DOMAIN cfg THEN MapPut(cfg, name, cfg[name] \cup {srv}) ELSE cfg

DeleteGroup(cfg, name) == MapDelete(cfg, name)

\* ----------------------------------------------------- syncBackendToHAProxy
\* The target as one value: committed configuration and open transaction.
Target(c, o, w, st) == [tgt |-> c, txOpen |-> o, txCfg |-> w, txStaged |-> st]

\* Frame of syncBackendToHAProxy(&b) at its first statement.
ApEnter(b) == [ApIdle EXCEPT !.pc = "start", !.b = b]

\* Mutant of ReloadCalls: the reload is requested on every apply.
ReloadAlways(created, name) == <<Call("Reload", name, TRUE)>>

\* if created { instance.Reload(...) }: the calls that follow
\* BackendCreateOrUpdate.
ReloadCalls(created, name) ==
    IF created THEN <<Call("Reload", name, TRUE)>> ELSE <<>>

\* Mutant of AfterStart: the error return runs a dispose.
AfterStartDisposing(ok) == IF ok THEN "createOrUpdate" ELSE "dispose"

\* Where syncBackendToHAProxy goes after APIStartTransaction: on an error it
\* returns before the dispose is deferred.
AfterStart(ok) == IF ok THEN "createOrUpdate" ELSE "ret"

\* Mutant of AfterDeleteAll: an error skips the creation of the servers.
AfterDeleteAllStrict(ok, servers) ==
    IF ok /\ Len(servers) > 0 THEN "create" ELSE "commit"

\* After BackendServerDeleteAll, whose error is only logged.
AfterDeleteAll(ok, servers) == IF Len(servers) > 0 THEN "create" ELSE "commit"

\* Mutant of AfterCreate: the loop ends after the first server.
AfterCreateFirstOnly(ok, servers, i) == "commit"

\* After the BackendServerCreate of servers[i], whose error is only logged.
AfterCreate(ok, servers, i) == IF i < Len(servers) THEN "create" ELSE "commit"

\* Mutant of AfterCommit: the error return skips the dispose.
AfterCommitNoDispose(ok) == IF ok THEN "finalCommit" ELSE "ret"

\* After APICommitTransaction: an error returns through the deferred dispose.
AfterCommit(ok) == IF ok THEN "finalCommit" ELSE "dispose"

\* After APIFinalCommitTransaction: both returns run the deferred dispose.
AfterFinalCommit(ok) == "dispose"

\* The outcomes a target call issued at position pc can have: the calls
\* that return no error (BackendCreateOrUpdate, APIDisposeTransaction)
\* have one.
Results(pc) ==
    IF pc \in {"start", "deleteAll", "create", "commit", "finalCommit"}
    THEN BOOLEAN
    ELSE {TRUE}

\* One target call of syncBackendToHAProxy: from frame f and target t, with
\* the call succeeding iff ok, the frame and target after it.
SyncStep(f, t, ok) ==
    LET name == f.b.Name
        log(op, arg, r) == Append(f.calls, Call(op, arg, r))
    IN CASE f.pc = "start" ->
              \* m.haproxyClient.APIStartTransaction()
              [f |-> [f EXCEPT !.pc = AfterStart(ok), !.err = ~ok,
                               !.failed = ~ok,
                               !.calls = log("StartTransaction", "", ok)],
               t |-> IF ok THEN Target(t.tgt, TRUE, t.tgt, FALSE) ELSE t]
         [] f.pc = "createOrUpdate" ->
              \* m.haproxyClient.BackendCreateOrUpdate(haproxyBackend), and
              \* instance.Reload when it reports a creation
              [f |-> [f EXCEPT !.pc = "deleteAll",
                               !.calls =
                                   log("BackendCreateOrUpdate", name, TRUE)
                                   \o ReloadCalls(Created(t.txCfg, name), name)],
               t |-> [t EXCEPT !.txCfg = CreateOrUpdate(@, name)]]
         [] f.pc = "deleteAll" ->
              \* m.haproxyClient.BackendServerDeleteAll(backend.Name)
              [f |-> [f EXCEPT !.pc = AfterDeleteAll(ok, f.b.Servers),
                               !.i = 1,
                               !.failed = @ \/ ~ok,
                               !.calls = log("BackendServerDeleteAll", name, ok)],
               t |-> IF ok THEN [t EXCEPT !.txCfg = DeleteAllServers(@, name)]
                           ELSE t]
         [] f.pc = "create" ->
              \* m.haproxyClient.BackendServerCreate(backend.Name, server)
              [f |-> [f EXCEPT !.pc = AfterCreate(ok, f.b.Servers, f.i),
                               !.i = @ + 1,
                               !.failed = @ \/ ~ok,
                               !.calls = log("BackendServerCreate",
                                             f.b.Servers[f.i].Name, ok)],
               t |-> IF ok
                     THEN [t EXCEPT !.txCfg = CreateServer(@, name, f.b.Servers[f.i])]
                     ELSE t]
         [] f.pc = "commit" ->
              \* m.haproxyClient.APICommitTransaction()
              [f |-> [f EXCEPT !.pc = AfterCommit(ok), !.err = ~ok,
                               !.failed = @ \/ ~ok,
                               !.calls = log("CommitTransaction", "", ok)],
               t |-> [t EXCEPT !.txStaged = ok]]
         [] f.pc = "finalCommit" ->
              \* m.haproxyClient.APIFinalCommitTransaction(): on success the
              \* working copy becomes the target's configuration
              [f |-> [f EXCEPT !.pc = AfterFinalCommit(ok), !.err = ~ok,
                               !.failed = @ \/ ~ok,
                               !.calls = log("FinalCommitTransaction", "", ok)],
               t |-> IF ok THEN [t EXCEPT !.tgt = t.txCfg] ELSE t]
         [] f.pc = "dispose" ->
              \* the deferred m.haproxyClient.APIDisposeTransaction()
              [f |-> [f EXCEPT !.pc = "ret",
                               !.calls = log("DisposeTransaction", "", TRUE)],
               t |-> Target(t.tgt, FALSE, EmptyMap, FALSE)]
         [] OTHER -> [f |-> f, t |-> t]

\* syncBackendToHAProxy run to its return from each frame and target of S:
\* every way it can end, over the outcomes of the calls it issues.
RECURSIVE RunSync(_)
RunSync(S) ==
    IF \A r \in S : r.f.pc = "ret"
    THEN S
    ELSE RunSync(UNION {{SyncStep(r.f, r.t, ok) : ok \in Results(r.f.pc)} :
                           r \in S})

\* How a syncBackendToHAProxy that has returned ended: with an error, with
\* nil although a call whose error is only logged failed, or cleanly.
Ending(f) ==
    IF f.err THEN "error" ELSE IF f.failed THEN "logged" ELSE "ok"

\* syncBackendToHAProxy(&b) against the target as it is now: the ways it
\* can end and the target each leaves.
Sync(b) ==
    {[end |-> Ending(r.f), t |-> r.t] :
        r \in RunSync({[f |-> ApEnter(b),
                         t |-> Target(tgt, txOpen, txCfg, txStaged)]})}

\* ------------------------------------------------------------ sync.RWMutex
\* m.mu.RLock() can return: no writer holds the lock and none is waiting.
CanRLock == muWriter = "none" /\ ~muPending

\* Mutant of CanLock: readers do not keep a writer out.
CanLockDespiteReaders == muWriter = "none"

\* m.mu.Lock() can return: nobody holds the lock.
CanLock == muWriter = "none" /\ muReaders = {}

\* ------------------------------------------------- processEvents (consumer)
\* Mutant of Dequeue: the newest buffered event is received first.
DequeueNewest(q) == [ev |-> q[Len(q)], rest |-> SubSeq(q, 1, Len(q) - 1)]

\* event, ok := <-m.eventChan
Dequeue(q) == [ev |-> Head(q), rest |-> Tail(q)]

\* Mutant of Upsert: an existing entry is kept.
UpsertIfAbsent(m, b) == IF b.Name \in DOMAIN m THEN m ELSE MapPut(m, b.Name, b)

\* m.backends[backend.Name] = &backend
Upsert(m, b) == MapPut(m, b.Name, b)

\* Mutant of Remove: the entry is left in the map.
RemoveNothing(m, name) == m

\* delete(m.backends, event.Backend.Name)
Remove(m, name) == MapDelete(m, name)

\* select: case event, ok := <-m.eventChan with ok true
ConsumerReceive ==
    /\ cPc = "select"
    /\ eventChan # <<>>
    /\ cEv' = Dequeue(eventChan).ev
    /\ eventChan' = Dequeue(eventChan).rest
    /\ cPc' = "received"
    /\ UNCHANGED <<rApplied, cf, stRes, cDeleted, rt, fe, lifeVars, managerVars, reconcileVars, syncVars, targetVars,
                   providerVars, stPc, inflight>>

\* select: case <-ctx.Done(), case <-m.stopChan, or the receive from a closed
\* and drained eventChan
ConsumerExit ==
    /\ cPc = "select"
    /\ (ctxDone \/ stopChan \/ (chanClosed /\ eventChan = <<>>))
    /\ cPc' = "exited"
    /\ UNCHANGED <<rApplied, cf, stRes, cDeleted, rt, fe, lifeVars, eventChan, managerVars, cEv, reconcileVars, syncVars,
                   targetVars, providerVars, stPc, inflight>>

\* handleBackendEvent: m.mu.Lock() is called and waits
ConsumerLock ==
    /\ cPc = "received"
    /\ muPending' = TRUE
    /\ cPc' = "lockWait"
    /\ UNCHANGED <<rApplied, cf, stRes, cDeleted, rt, fe, lifeVars, eventChan, backends, muWriter, muReaders, cEv,
                   reconcileVars, syncVars, targetVars, providerVars, stPc,
                   inflight>>

\* handleBackendEvent: m.mu.Lock() returns
ConsumerLocked ==
    /\ cPc = "lockWait"
    /\ CanLock
    /\ muWriter' = "consumer"
    /\ muPending' = FALSE
    /\ cPc' = "handle"
    /\ UNCHANGED <<rApplied, cf, stRes, cDeleted, rt, fe, lifeVars, eventChan, backends, muReaders, cEv,
                   reconcileVars, syncVars, targetVars, providerVars, stPc,
                   inflight>>

\* handleBackendEvent(event) from the map and target as they are now: every
\* way it can end, with the map, the calls issued to the target and the
\* target it leaves.  Add and Update share one case of the switch; an
\* event of another type falls through it.
handleBackendEvent(event) ==
    IF event.Type \in {BackendEventAdd, BackendEventUpdate}
    THEN {[backends |-> Upsert(backends, event.Backend),
           end |-> Ending(r.f),
           calls |-> r.f.calls,
           t |-> r.t] :
             r \in RunSync({[f |-> ApEnter(event.Backend),
                              t |-> Target(tgt, txOpen, txCfg, txStaged)]})}
    ELSE IF event.Type = BackendEventDelete
         THEN {[backends |-> Remove(backends, event.Backend.Name),
                end |-> "none",
                calls |-> <<Call("BackendDelete", event.Backend.Name, ok)>>,
                t |-> Target(IF ok
                             THEN DeleteGroup(tgt, event.Backend.Name)
                             ELSE tgt, txOpen, txCfg, txStaged)] :
                  ok \in BOOLEAN}
         ELSE {[backends |-> backends, end |-> "none", calls |-> <<>>,
                t |-> Target(tgt, txOpen, txCfg, txStaged)]}

\* Mutant of ConsumerUpsert: an Add for a name m.backends already has
\* leaves the entry as it is.
ConsumerUpsertInsertOnly ==
    /\ cPc = "handle"
    /\ cEv.Type \in {BackendEventAdd, BackendEventUpdate}
    /\ backends' = IF /\ cEv.Type = BackendEventAdd
                       /\ cEv.Backend.Name \in DOMAIN backends
                    THEN backends
                    ELSE Upsert(backends, cEv.Backend)
    /\ cDeleted' = cDeleted \ {cEv.Backend.Name}
    /\ \E r \in Sync(cEv.Backend) :
          /\ lastSync' = [lastSync EXCEPT !["consumer"] = r.end]
          /\ tgt' = r.t.tgt
          /\ txOpen' = r.t.txOpen
          /\ txCfg' = r.t.txCfg
          /\ txStaged' = r.t.txStaged
    /\ rApplied' = rApplied \ {cEv.Backend.Name}
    /\ cPc' = "unlock"
    /\ UNCHANGED <<cf, stRes, rt, fe, lifeVars, eventChan, muWriter, muPending, muReaders, cEv,
                   reconcileVars, ap, providerVars, stPc, inflight>>

\* Mutant of ConsumerUpsert: an apply that returned an error puts the map
\* back as it was.
ConsumerUpsertRollingBack ==
    /\ cPc = "handle"
    /\ cEv.Type \in {BackendEventAdd, BackendEventUpdate}
    /\ cDeleted' = cDeleted \ {cEv.Backend.Name}
    /\ \E r \in Sync(cEv.Backend) :
          /\ lastSync' = [lastSync EXCEPT !["consumer"] = r.end]
          /\ backends' = IF r.end = "error"
                         THEN backends
                         ELSE Upsert(backends, cEv.Backend)
          /\ tgt' = r.t.tgt
          /\ txOpen' = r.t.txOpen
          /\ txCfg' = r.t.txCfg
          /\ txStaged' = r.t.txStaged
    /\ cPc' = "unlock"
    /\ UNCHANGED <<rApplied, cf, stRes, rt, fe, lifeVars, eventChan, muWriter, muPending, muReaders, cEv,
                   reconcileVars, ap, providerVars, stPc, inflight>>

\* case BackendEventAdd, BackendEventUpdate: store the backend, run
\* syncBackendToHAProxy and log its error
ConsumerUpsert ==
    /\ cPc = "handle"
    /\ cEv.Type \in {BackendEventAdd, BackendEventUpdate}
    /\ backends' = Upsert(backends, cEv.Backend)
    /\ cDeleted' = cDeleted \ {cEv.Backend.Name}
    /\ \E r \in Sync(cEv.Backend) :
          /\ lastSync' = [lastSync EXCEPT !["consumer"] = r.end]
          /\ tgt' = r.t.tgt
          /\ txOpen' = r.t.txOpen
          /\ txCfg' = r.t.txCfg
          /\ txStaged' = r.t.txStaged
    /\ rApplied' = rApplied \ {cEv.Backend.Name}
    /\ cPc' = "unlock"
    /\ UNCHANGED <<cf, stRes, rt, fe, lifeVars, eventChan, muWriter, muPending, muReaders, cEv,
                   reconcileVars, ap, providerVars, stPc, inflight>>

\* case BackendEventDelete: delete(m.backends, name)
ConsumerDelete ==
    /\ cPc = "handle"
    /\ cEv.Type = BackendEventDelete
    /\ backends' = Remove(backends, cEv.Backend.Name)
    /\ cDeleted' = cDeleted \cup {cEv.Backend.Name}
    /\ rApplied' = rApplied \ {cEv.Backend.Name}
    /\ cPc' = "backendDelete"
    /\ UNCHANGED <<cf, stRes, rt, fe, lifeVars, eventChan, muWriter, muPending, muReaders, cEv,
                   reconcileVars, syncVars, targetVars, providerVars, stPc,
                   inflight>>

\* m.haproxyClient.BackendDelete(name): called outside any transaction, its
\* result is not looked at
ConsumerBackendDelete ==
    /\ cPc = "backendDelete"
    /\ \E ok \in BOOLEAN :
          tgt' = IF ok THEN DeleteGroup(tgt, cEv.Backend.Name) ELSE tgt
    /\ cPc' = "unlock"
    /\ UNCHANGED <<rApplied, cf, stRes, cDeleted, rt, fe, lifeVars, eventChan, managerVars, cEv, reconcileVars, syncVars,
                   txOpen, txCfg, txStaged, providerVars, stPc,
                   inflight>>

\* The deferred m.mu.Unlock(); handleBackendEvent returns to the select
ConsumerUnlock ==
    /\ cPc = "unlock"
    /\ muWriter' = "none"
    /\ cEv' = NoEvent
    /\ inflight' = Tail(inflight)
    /\ lastSync' = [lastSync EXCEPT !["consumer"] = "none"]
    /\ cPc' = "select"
    /\ UNCHANGED <<rApplied, cf, stRes, cDeleted, rt, fe, lifeVars, eventChan, backends, muPending, muReaders,
                   reconcileVars, ap, targetVars, providerVars, stPc>>

\* ----------------------------------------------- periodicSync and reconcile
\* select: case <-ticker.C: m.reconcile() is called
PeriodicTick ==
    /\ rPc = "select"
    /\ rPc' = "rlock"
    /\ UNCHANGED <<rApplied, cf, stRes, cDeleted, rt, fe, rCur, lifeVars, eventChan, managerVars, consumerVars, rList,
                   rTodo, syncVars, targetVars, providerVars, stPc,
                   inflight>>

\* select: case <-ctx.Done() or case <-m.stopChan
PeriodicExit ==
    /\ rPc = "select"
    /\ (ctxDone \/ stopChan)
    /\ rPc' = "exited"
    /\ UNCHANGED <<rApplied, cf, stRes, cDeleted, rt, fe, rCur, lifeVars, eventChan, managerVars, consumerVars, rList,
                   rTodo, syncVars, targetVars, providerVars, stPc,
                   inflight>>

\* Mutant of ReconcileRLock: reconcile goes on without taking m.mu.
ReconcileRLockSkipped ==
    /\ rPc = "rlock"
    /\ UNCHANGED muReaders
    /\ rPc' = "list"
    /\ UNCHANGED <<rApplied, cf, stRes, cDeleted, rt, fe, rCur, lifeVars, eventChan, backends, muWriter, muPending,
                   consumerVars, rList, rTodo, syncVars, targetVars, providerVars, stPc, inflight>>

\* reconcile: m.mu.RLock() returns
ReconcileRLock ==
    /\ rPc = "rlock"
    /\ CanRLock
    /\ muReaders' = muReaders \cup {"reconcile"}
    /\ rPc' = "list"
    /\ UNCHANGED <<rApplied, cf, stRes, cDeleted, rt, fe, rCur, lifeVars, eventChan, backends, muWriter, muPending,
                   consumerVars, rList, rTodo, syncVars, targetVars, providerVars, stPc, inflight>>

\* Mutant of ReconcileList: a failed listing empties m.backends.
ReconcileListClearingOnError ==
    /\ rPc = "list"
    /\ ~pMu
    /\ \E ok \in BOOLEAN :
          IF ok
          THEN /\ rList' = pBackends
               /\ rTodo' = DOMAIN pBackends
               /\ rPc' = "loop"
               /\ UNCHANGED backends
          ELSE /\ rPc' = "runlock"
               /\ backends' = EmptyMap
               /\ UNCHANGED <<rList, rTodo>>
    /\ UNCHANGED <<rApplied, cf, stRes, cDeleted, rt, fe, rCur, lifeVars, eventChan, muWriter, muPending,
                   muReaders, consumerVars, syncVars, targetVars, providerVars,
                   stPc, inflight>>

\* Mutant of ReconcileList: the pass visits only the names m.backends
\* already has.
ReconcileListKnownOnly ==
    /\ rPc = "list"
    /\ ~pMu
    /\ \E ok \in BOOLEAN :
          IF ok
          THEN /\ rList' = pBackends
               /\ rTodo' = (DOMAIN pBackends) \cap (DOMAIN backends)
               /\ rPc' = "loop"
          ELSE /\ rPc' = "runlock"
               /\ UNCHANGED <<rList, rTodo>>
    /\ UNCHANGED <<rApplied, cf, stRes, cDeleted, rt, fe, rCur, lifeVars, eventChan, managerVars, consumerVars, syncVars,
                   targetVars, providerVars, stPc, inflight>>

\* reconcile: m.provider.GetBackends(), which takes p.mu shared; on an error
\* (PollingProvider returns none, the BackendProvider interface allows one)
\* reconcile returns
ReconcileList ==
    /\ rPc = "list"
    /\ ~pMu
    /\ \E ok \in BOOLEAN :
          IF ok
          THEN /\ rList' = pBackends
               /\ rTodo' = DOMAIN pBackends
               /\ rPc' = "loop"
          ELSE /\ rPc' = "runlock"
               /\ UNCHANGED <<rList, rTodo>>
    /\ UNCHANGED <<rApplied, cf, stRes, cDeleted, rt, fe, rCur, lifeVars, eventChan, managerVars, consumerVars, syncVars,
                   targetVars, providerVars, stPc, inflight>>

\* Mutant of ReconcileUpsert: an apply that returned an error ends the range.
ReconcileUpsertAborting ==
    /\ rPc = "loop"
    /\ \E n \in rTodo :
          /\ backends' = Upsert(backends, rList[n])
          /\ rTodo' = rTodo \ {n}
          /\ rCur' = n
          /\ \E r \in Sync(rList[n]) :
                /\ lastSync' = [lastSync EXCEPT !["reconcile"] = r.end]
                /\ rPc' = IF r.end = "error" THEN "runlock" ELSE "loop"
                /\ tgt' = r.t.tgt
                /\ txOpen' = r.t.txOpen
                /\ txCfg' = r.t.txCfg
                /\ txStaged' = r.t.txStaged
    /\ UNCHANGED <<rApplied, cf, stRes, cDeleted, rt, fe, lifeVars, eventChan, muWriter, muPending, muReaders,
                   consumerVars, rList, ap, providerVars, stPc, inflight>>

\* reconcile: one iteration of the range over backends: store the backend,
\* run syncBackendToHAProxy and log its error
ReconcileUpsert ==
    /\ rPc = "loop"
    /\ \E n \in rTodo :
          /\ backends' = Upsert(backends, rList[n])
          /\ rTodo' = rTodo \ {n}
          /\ rCur' = n
          /\ \E r \in Sync(rList[n]) :
                /\ lastSync' = [lastSync EXCEPT !["reconcile"] = r.end]
                /\ tgt' = r.t.tgt
                /\ txOpen' = r.t.txOpen
                /\ txCfg' = r.t.txCfg
                /\ txStaged' = r.t.txStaged
                /\ rApplied' =
                      IF /\ r.end = "ok"
                         /\ pPc # "emit"
                         /\ n \in DOMAIN pBackends
                         /\ rList[n] = pBackends[n]
                      THEN rApplied \cup {n}
                      ELSE rApplied \ {n}
    /\ UNCHANGED <<cf, stRes, cDeleted, rt, fe, lifeVars, eventChan, muWriter, muPending, muReaders,
                   consumerVars, rPc, rList, ap, providerVars, stPc, inflight>>

\* reconcile writes m.backends holding m.mu only shared while GetBackends
\* ranges over it: besides going on (ReconcileUpsert), the Go runtime can
\* end the process with "fatal error: concurrent map read and map write".
ReconcileMapFault ==
    /\ rPc = "loop"
    /\ rTodo # {}
    /\ stPc = "reading"
    /\ pPc' = "fatal"
    /\ cPc' = "fatal"
    /\ rPc' = "fatal"
    /\ stPc' = "fatal"
    /\ sPc' = "fatal"
    /\ UNCHANGED <<rApplied, cf, stRes, cDeleted, rt, fe, started, ctxDone, stopChan, chanClosed, eventChan,
                   managerVars, cEv, rList, rTodo, rCur, syncVars, targetVars,
                   pBackends, pStopChan, pMu, pNew, pUp, pDel, fetchRange,
                   inflight>>

\* Mutant of ReconcileDone: the pass also drops the entries of m.backends
\* the provider did not list.
ReconcileDonePruning ==
    /\ rPc = "loop"
    /\ rTodo = {}
    /\ backends' = [n \in (DOMAIN backends) \cap (DOMAIN rList) |-> backends[n]]
    /\ lastSync' = [lastSync EXCEPT !["reconcile"] = "none"]
    /\ rCur' = ""
    /\ rPc' = "runlock"
    /\ UNCHANGED <<rApplied, cf, stRes, cDeleted, rt, fe, lifeVars, eventChan, muWriter, muPending, muReaders,
                   consumerVars, rList, rTodo, ap, targetVars, providerVars,
                   stPc, inflight>>

\* reconcile: the range is over
ReconcileDone ==
    /\ rPc = "loop"
    /\ rTodo = {}
    /\ lastSync' = [lastSync EXCEPT !["reconcile"] = "none"]
    /\ rCur' = ""
    /\ rPc' = "runlock"
    /\ UNCHANGED <<rApplied, cf, stRes, cDeleted, rt, fe, lifeVars, eventChan, managerVars, consumerVars, rList,
                   rTodo, ap, targetVars, providerVars, stPc, inflight>>

\* reconcile: the deferred m.mu.RUnlock()
ReconcileRUnlock ==
    /\ rPc = "runlock"
    /\ muReaders' = muReaders \ {"reconcile"}
    /\ rList' = EmptyMap
    /\ rPc' = "select"
    /\ UNCHANGED <<rApplied, cf, stRes, cDeleted, rt, fe, rCur, lifeVars, eventChan, backends, muWriter, muPending,
                   consumerVars, rTodo, syncVars, targetVars, providerVars, stPc, inflight>>

\* ------------------------------------------------------ Manager.GetBackends
\* m.mu.RLock() returns
StatusRLock ==
    /\ stPc = "idle"
    /\ CanRLock
    /\ muReaders' = muReaders \cup {"status"}
    /\ stPc' = "reading"
    /\ UNCHANGED <<rApplied, cf, stRes, cDeleted, rt, fe, lifeVars, eventChan, backends, muWriter, muPending,
                   consumerVars, reconcileVars, syncVars, targetVars, providerVars,
                   inflight>>

\* Mutant of GetBackendsResult: m.backends itself is returned.
GetBackendsAlias(m) == [ref |-> "engine", val |-> EmptyMap]

\* result := make(map[string]*Backend, len(m.backends)) filled by the copy
\* loop: a map of the caller's own with the keys and values of m.backends.
GetBackendsResult(m) == [ref |-> "own", val |-> m]

\* The copy loop over m.backends, the deferred m.mu.RUnlock() and the
\* return; res is what the caller then holds.
GetBackendsReturn(res) ==
    /\ stPc = "reading"
    /\ muReaders' = muReaders \ {"status"}
    /\ stPc' = "idle"
    /\ stRes' = res
    /\ UNCHANGED <<rApplied, cf, cDeleted, rt, fe, lifeVars, eventChan, backends, muWriter, muPending,
                   consumerVars, reconcileVars, syncVars, targetVars, providerVars,
                   inflight>>

\* GetBackends returns to a caller that does not keep the result.
StatusReturn == GetBackendsReturn(NoResult)

\* GetBackends returns to a caller that keeps the result.
StatusReturnKept == GetBackendsReturn(GetBackendsResult(backends))

\* The map the caller's result denotes.
ResultMap == IF stRes.ref = "engine" THEN backends ELSE stRes.val

\* The changes a caller makes to the map it was returned: delete(result, n)
\* and result[n] = &Backend{Name: n}.
CallerEdits(m) ==
    {MapDelete(m, n) : n \in DOMAIN m}
    \cup {MapPut(m, n, Backend(n, <<>>)) : n \in Names}

\* The caller changes the map it holds.
StatusCallerEdit ==
    /\ stPc = "idle"
    /\ stRes.ref # "none"
    /\ \E e \in CallerEdits(ResultMap) :
          /\ e # ResultMap
          /\ IF stRes.ref = "engine"
             THEN backends' = e /\ UNCHANGED stRes
             ELSE stRes' = [stRes EXCEPT !.val = e] /\ UNCHANGED backends
    /\ UNCHANGED <<rApplied, cf, cDeleted, rt, fe, lifeVars, eventChan, muWriter, muPending,
                   muReaders, consumerVars, reconcileVars, syncVars, targetVars,
                   providerVars, stPc, inflight>>

\* ------------------------------------------------------------ specification
Next ==
    \/ Cancel
    \/ Start
    \/ StopSignal
    \/ StopProvider
    \/ StopWait
    \/ StopClose
    \/ ProviderPoll
    \/ ProviderLogError
    \/ ProviderSendUpsert
    \/ ProviderSendDelete
    \/ ProviderStore
    \/ ProviderTick
    \/ ProviderExit
    \/ ConsumerReceive
    \/ ConsumerExit
    \/ ConsumerLock
    \/ ConsumerLocked
    \/ ConsumerUpsert
    \/ ConsumerDelete
    \/ ConsumerBackendDelete
    \/ ConsumerUnlock
    \/ PeriodicTick
    \/ PeriodicExit
    \/ ReconcileRLock
    \/ ReconcileList
    \/ ReconcileUpsert
    \/ ReconcileMapFault
    \/ ReconcileDone
    \/ ReconcileRUnlock
    \/ StatusRLock
    \/ StatusReturn

\* The data path: everything but cancellation and Stop.
NextData ==
    \/ Start
    \/ ProviderPoll
    \/ ProviderLogError
    \/ ProviderSendUpsert
    \/ ProviderSendDelete
    \/ ProviderStore
    \/ ProviderTick
    \/ ConsumerReceive
    \/ ConsumerLock
    \/ ConsumerLocked
    \/ ConsumerUpsert
    \/ ConsumerDelete
    \/ ConsumerBackendDelete
    \/ ConsumerUnlock
    \/ PeriodicTick
    \/ ReconcileRLock
    \/ ReconcileList
    \/ ReconcileUpsert
    \/ ReconcileMapFault
    \/ ReconcileDone
    \/ ReconcileRUnlock
    \/ StatusRLock
    \/ StatusReturn

Spec == Init /\ [][NextData]_vars

\* The data path with a caller of GetBackends that keeps what it was
\* returned and changes it.
NextStatus ==
    \/ Start
    \/ ProviderPoll
    \/ ProviderLogError
    \/ ProviderSendUpsert
    \/ ProviderSendDelete
    \/ ProviderStore
    \/ ProviderTick
    \/ ConsumerReceive
    \/ ConsumerLock
    \/ ConsumerLocked
    \/ ConsumerUpsert
    \/ ConsumerDelete
    \/ ConsumerBackendDelete
    \/ ConsumerUnlock
    \/ PeriodicTick
    \/ ReconcileRLock
    \/ ReconcileList
    \/ ReconcileUpsert
    \/ ReconcileMapFault
    \/ ReconcileDone
    \/ ReconcileRUnlock
    \/ StatusRLock
    \/ StatusReturnKept
    \/ StatusCallerEdit

\* The life cycle: a fetchFunc that reports one backend or none.
OneBackend == {f \in SourceStates : \A n \in DOMAIN f : f[n].Servers = <<SrvA>>}

InitLife ==
    /\ Constructed
    /\ fetchRange = OneBackend

LifeSpec == InitLife /\ [][Next]_vars

StatusSpec == InitLife /\ [][NextStatus]_vars

\* Scheduling: a goroutine that can take its next step takes it (every call
\* to fetchFunc and to the target returns, a lock that is free is acquired,
\* a send on a channel with room goes through), and a select that is
\* entered again and again with its cancellation or stop case ready
\* eventually takes that case.  The tickers are under no obligation.
Fairness ==
    /\ WF_vars(StopProvider)
    /\ WF_vars(StopWait)
    /\ WF_vars(StopClose)
    /\ WF_vars(ProviderPoll)
    /\ WF_vars(ProviderLogError)
    /\ WF_vars(ProviderSendUpsert)
    /\ WF_vars(ProviderSendDelete)
    /\ WF_vars(ProviderStore)
    /\ SF_vars(ProviderExit)
    /\ WF_vars(ConsumerLock)
    /\ SF_vars(ConsumerLocked)
    /\ WF_vars(ConsumerUpsert)
    /\ WF_vars(ConsumerDelete)
    /\ WF_vars(ConsumerBackendDelete)
    /\ WF_vars(ConsumerUnlock)
    /\ SF_vars(ConsumerExit)
    /\ SF_vars(PeriodicExit)
    /\ SF_vars(ReconcileRLock)
    /\ SF_vars(ReconcileList)
    /\ WF_vars(ReconcileUpsert)
    /\ WF_vars(ReconcileDone)
    /\ WF_vars(ReconcileRUnlock)
    /\ WF_vars(StatusReturn)

LiveSpec == LifeSpec /\ Fairness

\* The engine whose ctx is cancelled and whose Stop is never called.
NextCancel ==
    \/ Cancel
    \/ Start
    \/ ProviderPoll
    \/ ProviderLogError
    \/ ProviderSendUpsert
    \/ ProviderSendDelete
    \/ ProviderStore
    \/ ProviderTick
    \/ ProviderExit
    \/ ConsumerReceive
    \/ ConsumerExit
    \/ ConsumerLock
    \/ ConsumerLocked
    \/ ConsumerUpsert
    \/ ConsumerDelete
    \/ ConsumerBackendDelete
    \/ ConsumerUnlock
    \/ PeriodicTick
    \/ PeriodicExit
    \/ ReconcileRLock
    \/ ReconcileList
    \/ ReconcileUpsert
    \/ ReconcileMapFault
    \/ ReconcileDone
    \/ ReconcileRUnlock
    \/ StatusRLock
    \/ StatusReturn

CancelSpec == InitLife /\ [][NextCancel]_vars /\ Fairness

\* ------------------------------------------------ pollAndUpdate, one poll
\* Server "a" at another address.
SrvA2 == [Name |-> "a", IP |-> "10.0.0.9", Port |-> 80]

PollNames == {"g1", "g2"}

\* Server lists with unique server names: equal, reordered, re-addressed,
\* longer.
PollLists == {<<SrvA>>, <<SrvA2>>, <<SrvA, SrvB>>, <<SrvB, SrvA>>}

\* The snapshots p.backends and newBackendsMap range over.
PollStates ==
    UNION {{f \in [D -> {Backend(n, l) : n \in D, l \in PollLists}] :
               \A n \in D : f[n].Name = n} :
           D \in SUBSET PollNames}

\* PollingProvider.Start about to call pollAndUpdate with any snapshot of S
\* stored, the fetchFunc returning any snapshot of S, and eventChan drained.
PollStart(S) ==
    /\ started = TRUE
    /\ ctxDone = FALSE
    /\ stopChan = FALSE
    /\ eventChan = <<>>
    /\ chanClosed = FALSE
    /\ backends = EmptyMap
    /\ muWriter = "none"
    /\ muPending = FALSE
    /\ muReaders = {}
    /\ cPc = "select"
    /\ cEv = NoEvent
    /\ rPc = "select"
    /\ rList = EmptyMap
    /\ rTodo = {}
    /\ rCur = ""
    /\ ap = ApIdle
    /\ lastSync = [a \in Activities |-> "none"]
    /\ tgt = EmptyMap
    /\ txOpen = FALSE
    /\ txCfg = EmptyMap
    /\ txStaged = FALSE
    /\ pPc = "poll"
    /\ pBackends \in S
    /\ pStopChan = FALSE
    /\ pMu = FALSE
    /\ pNew = EmptyMap
    /\ pUp = {}
    /\ pDel = {}
    /\ fetchRange = S
    /\ stPc = "idle"
    /\ sPc = "idle"
    /\ inflight = <<>>
    /\ cDeleted = {}
    /\ rt = RtIdle
    /\ fe = FeEmpty
    /\ stRes = NoResult
    /\ cf = CfIdle
    /\ rApplied = {}

InitPoll == PollStart(PollStates)

NextPoll ==
    \/ ProviderPoll
    \/ ProviderLogError
    \/ ProviderSendUpsert
    \/ ProviderSendDelete
    \/ ProviderStore

PollSpec == InitPoll /\ [][NextPoll]_vars

\* Server lists as a fetchFunc can return them, nothing in the code keeping
\* the server names of a group distinct: those of PollLists and lists in
\* which a name comes twice, with the same or with another address.
EqualLists == PollLists \cup {<<SrvA, SrvA>>, <<SrvA, SrvA2>>}

EqualStates ==
    UNION {{f \in [D -> {Backend(n, l) : n \in D, l \in EqualLists}] :
               \A n \in D : f[n].Name = n} :
           D \in SUBSET PollNames}

InitEqual == PollStart(EqualStates)

\* One pollAndUpdate over the snapshots of EqualStates.
EqualSpec == InitEqual /\ [][NextPoll]_vars

\* ------------------------------------------- reconcile over several groups
\* periodicSync and reconcile alone, against a provider whose GetBackends
\* returns any of the snapshots of PollStates (two groups) or fails.
NextReconcile ==
    \/ PeriodicTick
    \/ ReconcileRLock
    \/ ReconcileList
    \/ ReconcileUpsert
    \/ ReconcileDone
    \/ ReconcileRUnlock

ReconcileSpec == InitPoll /\ [][NextReconcile]_vars

\* --------------------------------------- syncBackendToHAProxy, call by call
\* The configurations the target can hold.
TargetConfigs == UNION {[D -> SUBSET {SrvA, SrvB}] : D \in SUBSET Names}

\* The backends syncBackendToHAProxy can be called with.
SyncInputs == {Backend(n, l) : n \in Names, l \in ServerLists \cup {<<>>}}

InitSync ==
    /\ Constructed
    /\ fetchRange = SourceStates
    /\ tgt \in TargetConfigs

\* syncBackendToHAProxy(&b) is called.
SyncCall ==
    /\ ap.pc = "idle"
    /\ \E b \in SyncInputs : ap' = ApEnter(b)
    /\ UNCHANGED <<rApplied, cf, stRes, cDeleted, rt, fe, lifeVars, eventChan, managerVars, consumerVars,
                   reconcileVars, lastSync, targetVars, providerVars, stPc,
                   inflight>>

\* The next target call of the running syncBackendToHAProxy.
SyncCallStep ==
    /\ ap.pc \notin {"idle", "ret"}
    /\ \E ok \in Results(ap.pc) :
          LET r == SyncStep(ap, Target(tgt, txOpen, txCfg, txStaged), ok)
          IN /\ ap' = r.f
             /\ tgt' = r.t.tgt
             /\ txOpen' = r.t.txOpen
             /\ txCfg' = r.t.txCfg
             /\ txStaged' = r.t.txStaged
    /\ UNCHANGED <<rApplied, cf, stRes, cDeleted, rt, fe, lifeVars, eventChan, managerVars, consumerVars,
                   reconcileVars, lastSync, providerVars, stPc, inflight>>

\* syncBackendToHAProxy has returned and its caller goes on.
SyncReturn ==
    /\ ap.pc = "ret"
    /\ ap' = ApIdle
    /\ UNCHANGED <<rApplied, cf, stRes, cDeleted, rt, fe, lifeVars, eventChan, managerVars, consumerVars,
                   reconcileVars, lastSync, targetVars, providerVars, stPc,
                   inflight>>

NextSync ==
    \/ SyncCall
    \/ SyncCallStep
    \/ SyncReturn

SyncSpec == InitSync /\ [][NextSync]_vars

\* ----------------------------------------------- HTTPGateway.AddBackendRoute
\* The characters sanitizeName keeps: a-z, A-Z, 0-9 and '_'.
NameChars ==
    {"a", "b", "c", "d", "e", "f", "g", "h", "i", "j", "k", "l", "m", "n",
     "o", "p", "q", "r", "s", "t", "u", "v", "w", "x", "y", "z",
     "A", "B", "C", "D", "E", "F", "G", "H", "I", "J", "K", "L", "M", "N",
     "O", "P", "Q", "R", "S", "T", "U", "V", "W", "X", "Y", "Z",
     "0", "1", "2", "3", "4", "5", "6", "7", "8", "9", "_"}

\* Mutant of sanitizeName: the other characters are dropped.
RECURSIVE sanitizeNameDropping(_)
sanitizeNameDropping(name) ==
    IF name = <<>>
    THEN <<>>
    ELSE (IF Head(name) \in NameChars THEN <<Head(name)>> ELSE <<>>)
         \o sanitizeNameDropping(Tail(name))

\* sanitizeName: character by character, a kept character is appended to
\* the result and any other one appends "_".
RECURSIVE sanitizeName(_)
sanitizeName(name) ==
    IF name = <<>>
    THEN <<>>
    ELSE (IF Head(name) \in NameChars THEN <<Head(name)>> ELSE <<"_">>)
         \o sanitizeName(Tail(name))

\* The literal parts of the three formats of aclName.
HostPrefix == <<"h", "o", "s", "t", "_">>
PathInfix == <<"_", "p", "a", "t", "h", "_">>
PathPrefix == <<"p", "a", "t", "h", "_">>

\* aclName for a host and path that are not both empty.
AclName(host, path) ==
    IF host # <<>> /\ path # <<>>
    THEN HostPrefix \o sanitizeName(host) \o PathInfix \o sanitizeName(path)
    ELSE IF host # <<>>
         THEN HostPrefix \o sanitizeName(host)
         ELSE PathPrefix \o sanitizeName(path)

\* aclCriterion: the host and the path enter it unchanged.
AclCriterion(host, path) == [host |-> host, path |-> path]

\* The hosts, paths and backend names AddBackendRoute is called with.
RouteHosts == {<<>>, <<"a", ".", "B">>, <<"a", "_", "B">>}
RoutePaths == {<<>>, <<"/", "v", "1">>, <<"/", "v", "-", "1">>}
RouteBackends == Names

\* Frame of AddBackendRoute(host, path, backendName) at its first statement.
RtEnter(host, path, backendName) ==
    [RtIdle EXCEPT !.pc = "start", !.host = host, !.path = path,
                   !.backendName = backendName]

\* After APIStartTransaction: on an error AddBackendRoute returns before
\* the dispose is deferred; otherwise the name is built.
RtAfterStart(ok) == IF ok THEN "build" ELSE "ret"

\* After the if chain that builds aclName: with neither host nor path it
\* returns an error, through the deferred dispose.
RtAfterBuild(host, path) ==
    IF host = <<>> /\ path = <<>> THEN "dispose" ELSE "acl"

\* Mutant of RtAfterAcl: an ACLCreate error ends the call.
RtAfterAclStrict(ok) == IF ok THEN "rule" ELSE "dispose"

\* After ACLCreate, whose error is only logged.
RtAfterAcl(ok) == "rule"

\* After BackendSwitchingRuleCreate: an error returns through the dispose.
RtAfterRule(ok) == IF ok THEN "commit" ELSE "dispose"

\* After APICommitTransaction and after APIFinalCommitTransaction.
RtAfterCommit(ok) == IF ok THEN "finalCommit" ELSE "dispose"
RtAfterFinalCommit(ok) == "dispose"

\* The outcomes the step of AddBackendRoute at f.pc can have.  ACLCreate
\* fails when the frontend has an ACL of that name ("might already
\* exist"); building the name and the dispose cannot fail.
RouteResults(f, e) ==
    CASE f.pc \in {"start", "rule", "commit", "finalCommit"} -> BOOLEAN
      [] f.pc = "acl" ->
            IF f.aclName \in DOMAIN e.txAcls THEN {FALSE} ELSE BOOLEAN
      [] OTHER -> {TRUE}

\* One step of AddBackendRoute: from frame f, target t and frontend e, with
\* the call succeeding iff ok, the frame, target and frontend after it.
RouteStep(f, t, e, ok) ==
    LET log(op, arg, r) == Append(f.calls, Call(op, arg, r))
    IN CASE f.pc = "start" ->
              \* g.haproxyClient.APIStartTransaction()
              [f |-> [f EXCEPT !.pc = RtAfterStart(ok), !.err = ~ok,
                               !.calls = log("StartTransaction", "", ok)],
               t |-> IF ok THEN Target(t.tgt, TRUE, t.tgt, FALSE) ELSE t,
               e |-> IF ok
                     THEN [e EXCEPT !.txAcls = e.acls, !.txRules = e.rules,
                                    !.txFront = e.front, !.txBinds = e.binds]
                     ELSE e]
         [] f.pc = "build" ->
              \* the if chain on host and path: no target call
              [f |-> [f EXCEPT !.pc = RtAfterBuild(f.host, f.path),
                               !.err = (f.host = <<>> /\ f.path = <<>>),
                               !.aclName =
                                   IF f.host = <<>> /\ f.path = <<>>
                                   THEN <<>>
                                   ELSE AclName(f.host, f.path)],
               t |-> t,
               e |-> e]
         [] f.pc = "acl" ->
              \* g.haproxyClient.ACLCreate(0, "frontend", name, acl)
              [f |-> [f EXCEPT !.pc = RtAfterAcl(ok),
                               !.calls = log("ACLCreate", f.aclName, ok)],
               t |-> t,
               e |-> IF ok
                     THEN [e EXCEPT !.txAcls =
                               MapPut(@, f.aclName,
                                      AclCriterion(f.host, f.path))]
                     ELSE e]
         [] f.pc = "rule" ->
              \* g.haproxyClient.BackendSwitchingRuleCreate(0, name, rule)
              [f |-> [f EXCEPT !.pc = RtAfterRule(ok), !.err = ~ok,
                               !.calls = log("BackendSwitchingRuleCreate",
                                             f.aclName, ok)],
               t |-> t,
               e |-> IF ok
                     THEN [e EXCEPT !.txRules =
                               @ \cup {[CondTest |-> f.aclName,
                                        Name |-> f.backendName]}]
                     ELSE e]
         [] f.pc = "commit" ->
              \* g.haproxyClient.APICommitTransaction()
              [f |-> [f EXCEPT !.pc = RtAfterCommit(ok), !.err = ~ok,
                               !.calls = log("CommitTransaction", "", ok)],
               t |-> [t EXCEPT !.txStaged = ok],
               e |-> e]
         [] f.pc = "finalCommit" ->
              \* g.haproxyClient.APIFinalCommitTransaction()
              [f |-> [f EXCEPT !.pc = RtAfterFinalCommit(ok), !.err = ~ok,
                               !.calls = log("FinalCommitTransaction", "", ok)],
               t |-> IF ok THEN [t EXCEPT !.tgt = t.txCfg] ELSE t,
               e |-> IF ok
                     THEN [e EXCEPT !.acls = e.txAcls, !.rules = e.txRules,
                                    !.front = e.txFront, !.binds = e.txBinds]
                     ELSE e]
         [] f.pc = "dispose" ->
              \* the deferred g.haproxyClient.APIDisposeTransaction()
              [f |-> [f EXCEPT !.pc = "ret",
                               !.calls = log("DisposeTransaction", "", TRUE)],
               t |-> Target(t.tgt, FALSE, EmptyMap, FALSE),
               e |-> [e EXCEPT !.txAcls = EmptyMap, !.txRules = {},
                               !.txFront = FALSE, !.txBinds = {}]]
         [] OTHER -> [f |-> f, t |-> t, e |-> e]

\* AddBackendRoute(host, path, backendName) is called.
RouteCall ==
    /\ rt.pc = "idle"
    /\ \E host \in RouteHosts, path \in RoutePaths, name \in RouteBackends :
          rt' = RtEnter(host, path, name)
    /\ UNCHANGED <<rApplied, cf, stRes, cDeleted, fe, lifeVars, eventChan, managerVars, consumerVars,
                   reconcileVars, syncVars, targetVars, providerVars, stPc,
                   inflight>>

\* The next step of the running AddBackendRoute.
RouteCallStep ==
    /\ rt.pc \notin {"idle", "ret"}
    /\ \E ok \in RouteResults(rt, fe) :
          LET r == RouteStep(rt, Target(tgt, txOpen, txCfg, txStaged), fe, ok)
          IN /\ rt' = r.f
             /\ fe' = r.e
             /\ tgt' = r.t.tgt
             /\ txOpen' = r.t.txOpen
             /\ txCfg' = r.t.txCfg
             /\ txStaged' = r.t.txStaged
    /\ UNCHANGED <<rApplied, cf, stRes, cDeleted, lifeVars, eventChan, managerVars, consumerVars,
                   reconcileVars, syncVars, providerVars, stPc, inflight>>

\* AddBackendRoute has returned rt.err to its caller.
RouteReturn ==
    /\ rt.pc = "ret"
    /\ rt' = RtIdle
    /\ UNCHANGED <<rApplied, cf, stRes, cDeleted, fe, lifeVars, eventChan, managerVars, consumerVars,
                   reconcileVars, syncVars, targetVars, providerVars, stPc,
                   inflight>>

InitRoute ==
    /\ Constructed
    /\ fetchRange = SourceStates

NextRoute ==
    \/ RouteCall
    \/ RouteCallStep
    \/ RouteReturn

RouteSpec == InitRoute /\ [][NextRoute]_vars

\* --------------------------------------------- HTTPGateway.configureFrontend
\* Frame of configureFrontend at its first statement, for a gateway whose
\* config.HTTPSEnabled is https.
CfEnter(https) == [CfIdle EXCEPT !.pc = "start", !.HTTPSEnabled = https]

\* BindParams.Name of the bind each FrontendBindCreate position creates.
BindName(pc) ==
    CASE pc = "bindHttp4" -> "http-ipv4"
      [] pc = "bindHttps4" -> "https-ipv4"
      [] pc = "bindHttp6" -> "http-ipv6"
      [] pc = "bindHttps6" -> "https-ipv6"
      [] OTHER -> ""

\* After APIStartTransaction: on an error configureFrontend returns before
\* the dispose is deferred.
CfAfterStart(ok) == IF ok THEN "frontendCreate" ELSE "ret"

\* Mutant of CfAfterFrontendCreate: a FrontendCreate error ends the call.
CfAfterFrontendCreateStrict(ok) == IF ok THEN "bindHttp4" ELSE "dispose"

\* After FrontendCreate: on an error FrontendEdit is tried.
CfAfterFrontendCreate(ok) == IF ok THEN "bindHttp4" ELSE "frontendEdit"

\* After FrontendEdit, whose error is only logged.
CfAfterFrontendEdit(ok) == "bindHttp4"

\* After the FrontendBindCreate at pc, whose error is only logged: the
\* HTTPS binds are created only if config.HTTPSEnabled.
CfAfterBind(pc, https) ==
    CASE pc = "bindHttp4" -> IF https THEN "bindHttps4" ELSE "bindHttp6"
      [] pc = "bindHttps4" -> "bindHttp6"
      [] pc = "bindHttp6" -> IF https THEN "bindHttps6" ELSE "commit"
      [] OTHER -> "commit"

\* After APICommitTransaction and after APIFinalCommitTransaction.
CfAfterCommit(ok) == IF ok THEN "finalCommit" ELSE "dispose"
CfAfterFinalCommit(ok) == "dispose"

\* The outcomes the call of configureFrontend at f.pc can have.  A creation
\* fails when what it creates exists in the transaction ("might already
\* exist"), FrontendEdit when the frontend does not; the dispose cannot fail.
ConfigResults(f, e) ==
    CASE f.pc \in {"start", "commit", "finalCommit"} -> BOOLEAN
      [] f.pc = "frontendCreate" -> IF e.txFront THEN {FALSE} ELSE BOOLEAN
      [] f.pc = "frontendEdit" -> IF e.txFront THEN BOOLEAN ELSE {FALSE}
      [] f.pc \in {"bindHttp4", "bindHttps4", "bindHttp6", "bindHttps6"} ->
            IF BindName(f.pc) \in e.txBinds THEN {FALSE} ELSE BOOLEAN
      [] OTHER -> {TRUE}

\* One target call of configureFrontend: from frame f, target t and
\* frontend e, with the call succeeding iff ok, the three after it.
ConfigStep(f, t, e, ok) ==
    LET log(op, arg, r) == Append(f.calls, Call(op, arg, r))
    IN CASE f.pc = "start" ->
              \* g.haproxyClient.APIStartTransaction()
              [f |-> [f EXCEPT !.pc = CfAfterStart(ok), !.err = ~ok,
                               !.calls = log("StartTransaction", "", ok)],
               t |-> IF ok THEN Target(t.tgt, TRUE, t.tgt, FALSE) ELSE t,
               e |-> IF ok
                     THEN [e EXCEPT !.txAcls = e.acls, !.txRules = e.rules,
                                    !.txFront = e.front, !.txBinds = e.binds]
                     ELSE e]
         [] f.pc = "frontendCreate" ->
              \* g.haproxyClient.FrontendCreate(frontend)
              [f |-> [f EXCEPT !.pc = CfAfterFrontendCreate(ok),
                               !.calls = log("FrontendCreate", "", ok)],
               t |-> t,
               e |-> IF ok THEN [e EXCEPT !.txFront = TRUE] ELSE e]
         [] f.pc = "frontendEdit" ->
              \* g.haproxyClient.FrontendEdit(frontend)
              [f |-> [f EXCEPT !.pc = CfAfterFrontendEdit(ok),
                               !.calls = log("FrontendEdit", "", ok)],
               t |-> t,
               e |-> e]
         [] f.pc \in {"bindHttp4", "bindHttps4", "bindHttp6", "bindHttps6"} ->
              \* g.haproxyClient.FrontendBindCreate(name, bind)
              [f |-> [f EXCEPT !.pc = CfAfterBind(f.pc, f.HTTPSEnabled),
                               !.calls = log("FrontendBindCreate",
                                             BindName(f.pc), ok)],
               t |-> t,
               e |-> IF ok
                     THEN [e EXCEPT !.txBinds = @ \cup {BindName(f.pc)}]
                     ELSE e]
         [] f.pc = "commit" ->
              \* g.haproxyClient.APICommitTransaction()
              [f |-> [f EXCEPT !.pc = CfAfterCommit(ok), !.err = ~ok,
                               !.calls = log("CommitTransaction", "", ok)],
               t |-> [t EXCEPT !.txStaged = ok],
               e |-> e]
         [] f.pc = "finalCommit" ->
              \* g.haproxyClient.APIFinalCommitTransaction()
              [f |-> [f EXCEPT !.pc = CfAfterFinalCommit(ok), !.err = ~ok,
                               !.calls = log("FinalCommitTransaction", "", ok)],
               t |-> IF ok THEN [t EXCEPT !.tgt = t.txCfg] ELSE t,
               e |-> IF ok
                     THEN [e EXCEPT !.acls = e.txAcls, !.rules = e.txRules,
                                    !.front = e.txFront, !.binds = e.txBinds]
                     ELSE e]
         [] f.pc = "dispose" ->
              \* the deferred g.haproxyClient.APIDisposeTransaction()
              [f |-> [f EXCEPT !.pc = "ret",
                               !.calls = log("DisposeTransaction", "", TRUE)],
               t |-> Target(t.tgt, FALSE, EmptyMap, FALSE),
               e |-> [e EXCEPT !.txAcls = EmptyMap, !.txRules = {},
                               !.txFront = FALSE, !.txBinds = {}]]
         [] OTHER -> [f |-> f, t |-> t, e |-> e]

\* HTTPGateway.Start calls configureFrontend (on every process start, so
\* also against a target an earlier run has configured).
ConfigureCall ==
    /\ cf.pc = "idle"
    /\ \E https \in BOOLEAN : cf' = CfEnter(https)
    /\ UNCHANGED <<rApplied, cDeleted, rt, fe, stRes, lifeVars, eventChan, managerVars,
                   consumerVars, reconcileVars, syncVars, targetVars,
                   providerVars, stPc, inflight>>

\* The next target call of the running configureFrontend.
ConfigureCallStep ==
    /\ cf.pc \notin {"idle", "ret"}
    /\ \E ok \in ConfigResults(cf, fe) :
          LET r == ConfigStep(cf, Target(tgt, txOpen, txCfg, txStaged), fe, ok)
          IN /\ cf' = r.f
             /\ fe' = r.e
             /\ tgt' = r.t.tgt
             /\ txOpen' = r.t.txOpen
             /\ txCfg' = r.t.txCfg
             /\ txStaged' = r.t.txStaged
    /\ UNCHANGED <<rApplied, cDeleted, rt, stRes, lifeVars, eventChan, managerVars,
                   consumerVars, reconcileVars, syncVars, providerVars, stPc,
                   inflight>>

\* configureFrontend has returned cf.err to HTTPGateway.Start.
ConfigureReturn ==
    /\ cf.pc = "ret"
    /\ cf' = CfIdle
    /\ UNCHANGED <<rApplied, cDeleted, rt, fe, stRes, lifeVars, eventChan, managerVars,
                   consumerVars, reconcileVars, syncVars, targetVars,
                   providerVars, stPc, inflight>>

NextConfig ==
    \/ ConfigureCall
    \/ ConfigureCallStep
    \/ ConfigureReturn

ConfigSpec == InitRoute /\ [][NextConfig]_vars

\* ------------------------------- AddBackendRoute beside the Manager's applies
\* runSimpleProviderExample: gw.Start has returned, so the consumer and the
\* reconcile loop run and call syncBackendToHAProxy (one at a time, both
\* hold m.mu), while the caller of gw.Start goes on to AddBackendRoute.
ExampleHost ==
    <<"a", "p", "i", ".", "e", "x", "a", "m", "p", "l", "e", ".", "c", "o", "m">>
ExamplePath == <<"/", "a", "p", "i">>

\* gw.AddBackendRoute("api.example.com", "/api", "api-backend")
ExampleRouteCall ==
    /\ rt.pc = "idle"
    /\ \E name \in Names : rt' = RtEnter(ExampleHost, ExamplePath, name)
    /\ UNCHANGED <<rApplied, cf, stRes, cDeleted, fe, lifeVars, eventChan, managerVars, consumerVars,
                   reconcileVars, syncVars, targetVars, providerVars, stPc,
                   inflight>>

NextTx ==
    \/ SyncCall
    \/ SyncCallStep
    \/ SyncReturn
    \/ ExampleRouteCall
    \/ RouteCallStep
    \/ RouteReturn

TxSpec == InitRoute /\ [][NextTx]_vars

\* ===================================================================== claims
IsUpsert(e) == e.Type \in {BackendEventAdd, BackendEventUpdate}

\* C1: when handleBackendEvent has handled an Add or Update notification,
\* the entry of m.backends for its name is the Backend it carried, whatever
\* was stored for that name before (last write wins).
C1_LastWriteWins ==
    (cPc = "unlock" /\ IsUpsert(cEv)) =>
        /\ cEv.Backend.Name \in DOMAIN backends
        /\ backends[cEv.Backend.Name] = cEv.Backend

\* C1 witness: an Update (so a later notification for a name that had an Add)
\* has just been handled.
C1_Witness ==
    /\ cPc = "unlock"
    /\ cEv.Type = BackendEventUpdate
    /\ backends[cEv.Backend.Name] = cEv.Backend

\* C2: when handleBackendEvent has handled a Delete notification, before and
\* after the target's BackendDelete whatever it did, m.backends has no entry
\* for the notification's name.
C2_DeleteRemoves ==
    (cPc \in {"backendDelete", "unlock"} /\ cEv.Type = BackendEventDelete) =>
        cEv.Backend.Name \notin DOMAIN backends

\* C2 witness: a Delete has been handled, BackendDelete included, and the
\* target still holds the group (the call did nothing).
C2_Witness ==
    /\ cPc = "unlock"
    /\ cEv.Type = BackendEventDelete
    /\ cEv.Backend.Name \in DOMAIN tgt

\* The event handleBackendEvent is working on, as a sequence.
InHand == IF cEv = NoEvent THEN <<>> ELSE <<cEv>>

\* C3: the events sent and not yet handled are, in the order they were sent,
\* the one event processEvents is handling followed by the content of
\* eventChan: nothing is reordered, duplicated or dropped, and one event is
\* handled at a time.
C3_FifoOrder == inflight = InHand \o eventChan

\* C3 witness: an event is being handled while two different events wait.
C3_Witness ==
    /\ cPc = "unlock"
    /\ Len(eventChan) = 2
    /\ eventChan[1] # eventChan[2]

\* C4: m.backends changes only in a step of a goroutine that holds m.mu
\* exclusively, and never while GetBackends is reading it under the shared
\* lock.
C4_MapWrittenUnderExclusiveLock ==
    [][backends' # backends => (muWriter # "none" /\ stPc # "reading")]_vars

\* A target call that failed, other than the best-effort delete of the
\* servers.
StepFailed(c) == ~c.ok /\ c.op # "BackendServerDeleteAll"

\* C5: when a call of an apply fails (the creation of one server included),
\* the apply returns an error, issues no commit or final commit after the
\* failure and leaves no transaction open.
C5_FailureAborts ==
    ap.pc = "ret" =>
        \A k \in DOMAIN ap.calls :
            StepFailed(ap.calls[k]) =>
                /\ ap.err
                /\ ~txOpen
                /\ \A j \in DOMAIN ap.calls :
                      j > k => ap.calls[j].op \notin
                                  {"CommitTransaction", "FinalCommitTransaction"}

AllExited == pPc = "exited" /\ cPc = "exited" /\ rPc = "exited"

\* C6: Stop closes stopChan, then stops the provider, then waits; it gets past
\* the wait, closes eventChan and returns only when provider.Start,
\* processEvents and periodicSync have all returned.
C6_StopWaitsForAll ==
    /\ pStopChan => stopChan
    /\ sPc \in {"wait", "close", "returned"} => (stopChan /\ pStopChan)
    /\ sPc \in {"close", "returned"} => AllExited
    /\ chanClosed => (sPc = "returned" /\ AllExited)

\* C6 witness: Stop has returned.
C6_Witness == sPc = "returned" /\ chanClosed

\* C7: once Stop has returned, no step receives or handles an event, changes
\* m.backends or calls the target.
C7_NothingHandledAfterStop ==
    [][sPc = "returned" =>
          UNCHANGED <<backends, eventChan, cPc, cEv, rPc, lastSync, tgt,
                      txOpen, txCfg, txStaged>>]_vars

\* C7 witness: Stop has returned while an event is still buffered.
C7_Witness == sPc = "returned" /\ eventChan # <<>>

\* C8: once Stop has closed stopChan, provider.Start, processEvents and
\* periodicSync all return and Stop returns (unless the process has ended).
C8_StopReturns ==
    stopChan ~> ((AllExited /\ sPc = "returned") \/ sPc = "fatal")

\* Number of calls of the apply satisfying P.
CountCalls(P(_)) == Cardinality({k \in DOMAIN ap.calls : P(ap.calls[k])})

IsOpened(c) == c.op = "StartTransaction" /\ c.ok
IsDispose(c) == c.op = "DisposeTransaction"

\* C9: a transaction is open only inside a running apply, and an apply that
\* has returned has disposed as many times as it opened a transaction (once
\* or never), the dispose being its last call.
C9_TransactionDisposedOnce ==
    /\ ap.pc \in {"idle", "ret"} => ~txOpen
    /\ ap.pc = "ret" =>
          /\ CountCalls(IsDispose) = CountCalls(IsOpened)
          /\ CountCalls(IsOpened) = 1 => IsDispose(ap.calls[Len(ap.calls)])

\* C9 witness: an apply has returned after its commit failed.
C9_Witness ==
    /\ ap.pc = "ret"
    /\ \E k \in DOMAIN ap.calls :
          ap.calls[k].op = "CommitTransaction" /\ ~ap.calls[k].ok

\* The provider lists g, and m.backends and the target hold what it lists.
Converged(g) ==
    /\ g \in DOMAIN pBackends
    /\ g \in DOMAIN backends
    /\ g \in DOMAIN tgt
    /\ backends[g] = pBackends[g]
    /\ tgt[g] = Range(pBackends[g].Servers)

\* No notification for g is waiting, being handled or about to be sent.
Quiet(g) ==
    /\ \A k \in DOMAIN inflight : inflight[k].Backend.Name # g
    /\ g \notin pUp \cup pDel

\* C10, one pass: when reconcile has applied a listed backend and no target
\* call of that apply failed, m.backends holds the listed backend and the
\* target's servers of that group are exactly its servers.
ReconcileConverges ==
    (rPc = "loop" /\ rCur # "" /\ lastSync["reconcile"] = "ok") =>
        /\ rCur \in DOMAIN backends
        /\ rCur \in DOMAIN tgt
        /\ backends[rCur] = rList[rCur]
        /\ tgt[rCur] = Range(rList[rCur].Servers)

\* C10, afterwards: a step that leaves the provider's listing of g as it is,
\* with no notification for g around and no target call failing, keeps
\* m.backends and the target at what the provider lists for g.
StaysConverged(g) ==
    (/\ Converged(g)
     /\ Quiet(g)
     /\ Quiet(g)'
     /\ g \in DOMAIN pBackends'
     /\ pBackends'[g] = pBackends[g]
     /\ \A a \in Activities : lastSync'[a] \in {"none", "ok"})
        => Converged(g)'

\* C10: a full-reconcile pass whose target calls succeed brings m.backends
\* and the target to the snapshot the provider lists, and they stay there as
\* long as the listing does not change, no notification for the group is
\* pending or produced and target calls succeed.
C10_ReconcileConvergence ==
    /\ []ReconcileConverges
    /\ [][\A g \in Names : StaysConverged(g)]_vars

\* C10 witness: a pass has just applied the two-server snapshot cleanly with
\* nothing in flight.
C10_Witness ==
    /\ rPc = "loop"
    /\ rCur = "g1"
    /\ lastSync["reconcile"] = "ok"
    /\ rList["g1"].Servers = <<SrvA, SrvB>>
    /\ Converged("g1")
    /\ inflight = <<>>

\* C11: while reconcile holds m.mu (from its RLock to its RUnlock) no step
\* removes a name from m.backends or a group from the target: the pass only
\* upserts, so a group the provider no longer lists stays in both.
\* A name leaves m.backends, and a group the target, only in the handling of
\* a Delete notification.
C11_ReconcileOnlyUpserts ==
    [][/\ ("reconcile" \in muReaders) =>
             /\ (DOMAIN backends) \subseteq (DOMAIN backends')
             /\ (DOMAIN tgt) \subseteq (DOMAIN tgt')
       /\ ~((DOMAIN backends) \subseteq (DOMAIN backends')) =>
             (cPc = "handle" /\ cEv.Type = BackendEventDelete)
       /\ ~((DOMAIN tgt) \subseteq (DOMAIN tgt')) =>
             (cPc = "backendDelete" /\ cEv.Type = BackendEventDelete)]_vars

\* C11 witness: a pass has visited everything the provider listed, the
\* listing has no g1, and g1 is still in m.backends and at the target.
C11_Witness ==
    /\ rPc = "loop"
    /\ rTodo = {}
    /\ "g1" \notin DOMAIN rList
    /\ "g1" \in DOMAIN backends
    /\ "g1" \in DOMAIN tgt

IsReload(c) == c.op = "Reload"

\* C13: an apply requests a reload exactly when its BackendCreateOrUpdate
\* created the backend: the step of that call records a Reload iff the
\* group was not in the configuration, and no other step records one.
C13_ReloadIffCreated ==
    [][/\ (ap.pc = "createOrUpdate" /\ ap'.pc = "deleteAll") =>
             /\ CountCalls(IsReload) = 0
             /\ (IsReload(ap'.calls[Len(ap'.calls)]) <=>
                     ap.b.Name \notin DOMAIN txCfg)
       /\ (ap.pc \notin {"createOrUpdate", "ret"}) =>
             \A k \in DOMAIN ap'.calls :
                 IsReload(ap'.calls[k]) =>
                     (k \in DOMAIN ap.calls /\ ap.calls[k] = ap'.calls[k])]_vars

\* C13 witness: an apply on a group the target already had has returned
\* with its final commit done, the servers replaced, and no reload.
C13_Witness ==
    /\ ap.pc = "ret"
    /\ ~ap.failed
    /\ CountCalls(IsReload) = 0
    /\ Len(ap.b.Servers) = 2
    /\ tgt[ap.b.Name] = Range(ap.b.Servers)

\* C14: when an apply of a snapshot has returned with no call failed,
\* applying the same snapshot again with no call failing leaves the target
\* with the same servers for the group.
C14_ApplyIdempotent ==
    (ap.pc = "ret" /\ ~ap.failed) =>
        \A r \in Sync(ap.b) :
            r.end = "ok" =>
                /\ ap.b.Name \in DOMAIN r.t.tgt
                /\ r.t.tgt[ap.b.Name] = tgt[ap.b.Name]

\* C14 witness: a clean apply of a one-server snapshot has returned on a
\* target that already had the group (no reload was requested).
C14_Witness ==
    /\ ap.pc = "ret"
    /\ ~ap.failed
    /\ ap.b.Servers = <<SrvA>>
    /\ tgt[ap.b.Name] = {SrvA}
    /\ CountCalls(IsReload) = 0

\* C20: once PollingProvider.Stop has returned (p.stopChan is closed), no
\* step sends an event on eventChan.
C20_NoSendAfterProviderStop ==
    [][pStopChan => Len(inflight') <= Len(inflight)]_vars

\* The notifications one poll owes for previous snapshot P and fetched
\* snapshot N: Add for the new names, Update for the names whose server set
\* changed, Delete (carrying the old group) for the names that are gone.
ExpectedEvents(P, N) ==
    {BackendEvent(BackendEventAdd, N[n]) : n \in (DOMAIN N) \ (DOMAIN P)}
    \cup {BackendEvent(BackendEventUpdate, N[n]) :
             n \in {k \in (DOMAIN N) \cap (DOMAIN P) :
                       Range(P[k].Servers) # Range(N[k].Servers)}}
    \cup {BackendEvent(BackendEventDelete, P[n]) :
             n \in (DOMAIN P) \ (DOMAIN N)}

\* C15: during one pollAndUpdate the events sent so far are distinct and
\* among those owed, and when both loops are over they are exactly those
\* owed (none when the fetch equals the stored snapshot up to server order).
C15_PollEmitsExactDiff ==
    pPc = "emit" =>
        /\ Cardinality(Range(eventChan)) = Len(eventChan)
        /\ Range(eventChan) \subseteq ExpectedEvents(pBackends, pNew)
        /\ (pUp = {} /\ pDel = {}) =>
               Range(eventChan) = ExpectedEvents(pBackends, pNew)

\* C15 witness: a poll has finished its loops having sent nothing for g1,
\* whose servers only changed order, and an Update for g2, whose server "a"
\* changed address.
C15_Witness ==
    /\ pPc = "emit"
    /\ pUp = {}
    /\ pDel = {}
    /\ DOMAIN pBackends = {"g1", "g2"}
    /\ DOMAIN pNew = {"g1", "g2"}
    /\ pBackends["g1"].Servers = <<SrvA, SrvB>>
    /\ pNew["g1"].Servers = <<SrvB, SrvA>>
    /\ pBackends["g2"].Servers = <<SrvA>>
    /\ eventChan = <<BackendEvent(BackendEventUpdate, Backend("g2", <<SrvA2>>))>>


\* C12: once a Delete notification for g has been handled, m.backends (what
\* a status query copies) has no entry for g, and g stays out until an
\* upsert puts it back; a reconcile pass stores, for every group its listing
\* has, the listed snapshot and runs an apply for it, so at the end of the
\* pass every listed group, a deleted one included, is in the map with the
\* provider's snapshot.
C12_DeleteThenReconcileRestores ==
    [][/\ (cPc = "handle" /\ cEv.Type = BackendEventDelete /\ cPc' # "handle") =>
             /\ cEv.Backend.Name \notin DOMAIN backends'
             /\ cEv.Backend.Name \in cDeleted'
       /\ \A g \in cDeleted :
             (g \notin DOMAIN backends /\ g \in DOMAIN backends') =>
                 \/ /\ cPc = "handle"
                    /\ cEv.Type \in {BackendEventAdd, BackendEventUpdate}
                    /\ cEv.Backend.Name = g
                 \/ /\ rPc = "loop"
                    /\ g \in DOMAIN rList
                    /\ rCur' = g
       /\ (rPc = "loop" /\ rPc' = "loop" /\ rTodo' # rTodo) =>
             /\ rCur' \in DOMAIN rList
             /\ backends'[rCur'] = rList[rCur']
             /\ lastSync'["reconcile"] # "none"
             /\ (lastSync'["reconcile"] = "ok" /\ rList[rCur'].Servers # <<>>) =>
                    rCur' \in DOMAIN tgt'
       /\ (rPc = "loop" /\ rPc' = "runlock") =>
             \A g \in DOMAIN rList :
                 g \in DOMAIN backends /\ backends[g] = rList[g]]_vars

\* C12 witness: g1 was deleted by a handled Delete, the provider lists it
\* again, and the reconcile pass has just put it back and applied it.
C12_Witness ==
    /\ "g1" \in cDeleted
    /\ rPc = "loop"
    /\ rCur = "g1"
    /\ backends = MapPut(EmptyMap, "g1", rList["g1"])
    /\ lastSync["reconcile"] = "ok"
    /\ "g1" \in DOMAIN tgt

\* C16: AddBackendRoute called with host and path both empty returns an
\* error and has issued no call to the target.
C16_EmptyRouteNoCalls ==
    (rt.pc = "ret" /\ rt.host = <<>> /\ rt.path = <<>>) =>
        (rt.err /\ rt.calls = <<>>)

RtFailed(op) == \E k \in DOMAIN rt.calls : rt.calls[k].op = op /\ ~rt.calls[k].ok

RtIssued(op) == \E k \in DOMAIN rt.calls : rt.calls[k].op = op

\* C17: in a returned AddBackendRoute every ACLCreate, failed or not, is
\* followed by the BackendSwitchingRuleCreate; the call returns an error
\* exactly when its start, its rule creation, its commit or its final commit
\* failed (so never for a failed ACLCreate alone); and after a failed rule
\* creation no commit was issued and the last call is the one dispose.
C17_AclToleratedRuleFatal ==
    (rt.pc = "ret" /\ ~(rt.host = <<>> /\ rt.path = <<>>)) =>
        /\ \A k \in DOMAIN rt.calls :
              rt.calls[k].op = "ACLCreate" =>
                  /\ k < Len(rt.calls)
                  /\ rt.calls[k + 1].op = "BackendSwitchingRuleCreate"
        /\ rt.err <=> (\/ RtFailed("StartTransaction")
                       \/ RtFailed("BackendSwitchingRuleCreate")
                       \/ RtFailed("CommitTransaction")
                       \/ RtFailed("FinalCommitTransaction"))
        /\ (~rt.err) => (RtIssued("CommitTransaction")
                           /\ RtIssued("FinalCommitTransaction"))
        /\ RtFailed("BackendSwitchingRuleCreate") =>
              /\ ~RtIssued("CommitTransaction")
              /\ ~RtIssued("FinalCommitTransaction")
              /\ rt.calls[Len(rt.calls)].op = "DisposeTransaction"
              /\ Cardinality({k \in DOMAIN rt.calls :
                                 rt.calls[k].op = "DisposeTransaction"}) = 1
              /\ ~txOpen

\* C17 witness: a call for a host and path whose ACL the frontend already
\* had from an earlier identical call has returned success: its ACLCreate
\* failed, its rule was created and committed.
C17_Witness ==
    /\ rt.pc = "ret"
    /\ ~rt.err
    /\ RtFailed("ACLCreate")
    /\ rt.aclName \in DOMAIN fe.acls
    /\ fe.acls[rt.aclName] = AclCriterion(rt.host, rt.path)
    /\ [CondTest |-> rt.aclName, Name |-> rt.backendName] \in fe.rules

\* The characters of s with every one outside [A-Za-z0-9_] replaced by "_".
Filled(s) == [i \in 1..Len(s) |-> IF s[i] \in NameChars THEN s[i] ELSE "_"]

\* C18: the name AddBackendRoute has built is determined by host and path
\* alone, whatever the earlier calls and the target hold: it is the literal
\* parts of its format around host and path with every character outside
\* [A-Za-z0-9_] replaced by "_" and every other character kept in place.
C18_AclNameDeterministic ==
    (rt.pc \in {"acl", "rule", "commit", "finalCommit"}) =>
        rt.aclName =
            IF rt.host # <<>> /\ rt.path # <<>>
            THEN HostPrefix \o Filled(rt.host) \o PathInfix \o Filled(rt.path)
            ELSE IF rt.host # <<>>
                 THEN HostPrefix \o Filled(rt.host)
                 ELSE PathPrefix \o Filled(rt.path)

\* C18 witness: a second call with host "a.B" and path "/v-1" has built
\* the name host_a_B_path__v_1, which the frontend has from the first call.
C18_Witness ==
    /\ rt.pc = "acl"
    /\ rt.host = <<"a", ".", "B">>
    /\ rt.path = <<"/", "v", "-", "1">>
    /\ rt.aclName = <<"h", "o", "s", "t", "_", "a", "_", "B", "_", "p", "a",
                      "t", "h", "_", "_", "v", "_", "1">>
    /\ rt.aclName \in DOMAIN fe.acls
    /\ fe.acls[rt.aclName] = AclCriterion(rt.host, rt.path)

\* A frame is inside its transaction: its APIStartTransaction succeeded and
\* its APIDisposeTransaction has not been called yet.
InTx(f) ==
    /\ \E k \in DOMAIN f.calls :
          f.calls[k].op = "StartTransaction" /\ f.calls[k].ok
    /\ \A k \in DOMAIN f.calls : f.calls[k].op # "DisposeTransaction"

\* C19: a syncBackendToHAProxy and an AddBackendRoute are never both
\* between their open-transaction and their dispose-transaction.
C19_OneTransactionAtATime == ~(InTx(ap) /\ InTx(rt))

\* C27: an apply whose APIStartTransaction failed has returned an error
\* with that call as its only call to the target.
C27_StartFailureStopsApply ==
    (ap.pc = "ret" /\ ap.calls[1].op = "StartTransaction" /\ ~ap.calls[1].ok) =>
        /\ ap.err
        /\ Len(ap.calls) = 1

\* C27 witness: an apply has returned after its APIStartTransaction failed,
\* and nothing is open at the target.
C27_Witness ==
    /\ ap.pc = "ret"
    /\ ap.calls = <<Call("StartTransaction", "", FALSE)>>
    /\ ap.b.Servers # <<>>
    /\ ~txOpen

NotReload(c) == ~IsReload(c)

\* The calls of the running apply without the reload requests.
TargetOps == SelectSeq(ap.calls, NotReload)

\* The operations and arguments an apply of b issues after a successful
\* APIStartTransaction, up to its commit.
ExpectedOps(b) ==
    <<<<"StartTransaction", "">>, <<"BackendCreateOrUpdate", b.Name>>,
      <<"BackendServerDeleteAll", b.Name>>>>
    \o [i \in 1..Len(b.Servers) |-> <<"BackendServerCreate", b.Servers[i].Name>>]
    \o <<<<"CommitTransaction", "">>>>

\* C28: a returned apply whose APIStartTransaction succeeded has issued, in
\* this order, start, create-or-update, delete-all-servers, one create per
\* server of the snapshot in the snapshot's order, commit, the final commit
\* when the commit succeeded, and the dispose; this whether or not the
\* delete-all-servers failed, and that failure alone gives no error.
C28_ApplyCallOrder ==
    (ap.pc = "ret" /\ ap.calls[1].ok) =>
        LET ops == [k \in DOMAIN TargetOps |->
                       <<TargetOps[k].op, TargetOps[k].arg>>]
            n == Len(ExpectedOps(ap.b))
        IN /\ ops = ExpectedOps(ap.b)
                    \o (IF TargetOps[n].ok
                        THEN <<<<"FinalCommitTransaction", "">>>>
                        ELSE <<>>)
                    \o <<<<"DisposeTransaction", "">>>>
           /\ (\A k \in DOMAIN ap.calls :
                  ap.calls[k].ok \/ ap.calls[k].op = "BackendServerDeleteAll")
                 => ~ap.err

\* C28 witness: an apply of two servers has returned without error although
\* its delete-all-servers failed; both servers were created and committed.
C28_Witness ==
    /\ ap.pc = "ret"
    /\ ~ap.err
    /\ Len(ap.b.Servers) = 2
    /\ \E k \in DOMAIN ap.calls :
          ap.calls[k].op = "BackendServerDeleteAll" /\ ~ap.calls[k].ok
    /\ CountCalls(StepFailed) = 0
    /\ Range(ap.b.Servers) \subseteq tgt[ap.b.Name]

\* C29: in an apply, a reload is requested only after its commit and its
\* final commit have both succeeded.
C29_ReloadAfterCommits ==
    \A k \in DOMAIN ap.calls :
        IsReload(ap.calls[k]) =>
            /\ \E i \in 1..(k - 1) :
                  ap.calls[i].op = "CommitTransaction" /\ ap.calls[i].ok
            /\ \E i \in 1..(k - 1) :
                  ap.calls[i].op = "FinalCommitTransaction" /\ ap.calls[i].ok

\* C22: when the apply run for an Add or Update notification returned an
\* error, m.backends holds the Backend of that notification when the apply
\* returns and until the handler ends, and the handler then returns to the
\* select of processEvents without touching the map.
C22_FailedApplyKeepsEntry ==
    [][LET name == cEv.Backend.Name
       IN /\ (/\ cPc = "handle"
              /\ IsUpsert(cEv)
              /\ cPc' = "unlock"
              /\ lastSync'["consumer"] = "error") =>
                 /\ name \in DOMAIN backends'
                 /\ backends'[name] = cEv.Backend
          /\ (/\ cPc = "unlock"
              /\ IsUpsert(cEv)
              /\ lastSync["consumer"] = "error") =>
                 /\ name \in DOMAIN backends
                 /\ backends[name] = cEv.Backend
                 /\ backends' = backends
                 /\ cPc' \in {"unlock", "select"}]_vars

\* C22 witness: the apply of an Update has returned an error; the map has
\* the Update's snapshot, the target another server set, and a further
\* notification waits in the queue.
C22_Witness ==
    /\ cPc = "unlock"
    /\ cEv.Type = BackendEventUpdate
    /\ lastSync["consumer"] = "error"
    /\ backends[cEv.Backend.Name] = cEv.Backend
    /\ cEv.Backend.Name \in DOMAIN tgt
    /\ tgt[cEv.Backend.Name] # Range(cEv.Backend.Servers)
    /\ eventChan # <<>>

\* The consumer is handling a notification: handleBackendEvent holds m.mu.
Handling == cPc \in {"handle", "backendDelete", "unlock"}

\* A reconcile pass is running: reconcile holds m.mu, from before the
\* listing to after its last apply.
InPass == rPc \in {"list", "loop", "runlock"}

\* C30: the handling of a notification and a reconcile pass never overlap,
\* and each holds m.mu for its whole duration: the consumer exclusively,
\* reconcile shared.
C30_HandlingAndPassExclusive ==
    /\ ~(Handling /\ InPass)
    /\ Handling => (muWriter = "consumer" /\ muReaders = {})
    /\ InPass => ("reconcile" \in muReaders /\ muWriter = "none")

\* C30 witness: a reconcile pass has run an apply and still holds m.mu
\* while the consumer, which has received a notification, waits in
\* m.mu.Lock().
C30_Witness ==
    /\ rPc = "loop"
    /\ rTodo = {}
    /\ rCur # ""
    /\ cPc = "lockWait"
    /\ cEv # NoEvent

\* C23: a reconcile pass starts with every listed group to visit; while a
\* group is left, whatever the outcome of the applies so far, its next step
\* stores the listed snapshot of one of them and runs an apply for it; and
\* the pass ends only when no group is left, every listed group then being
\* in the map with its listed snapshot.
C23_PassVisitsEveryGroup ==
    [][/\ (rPc = "list" /\ rPc' = "loop") => rTodo' = DOMAIN rList'
       /\ (rPc = "loop" /\ rTodo # {}) =>
             /\ rPc' = "loop"
             /\ rCur' \in rTodo
             /\ rTodo' = rTodo \ {rCur'}
             /\ backends'[rCur'] = rList[rCur']
             /\ lastSync'["reconcile"] # "none"
       /\ (rPc = "loop" /\ rPc' # "loop") =>
             /\ rTodo = {}
             /\ \A g \in DOMAIN rList :
                   g \in DOMAIN backends /\ backends[g] = rList[g]]_vars

\* C23 witness: in a pass over g1 and g2 the apply of g1 failed, leaving
\* the target without g1, and the pass went on to store and apply g2.
C23_Witness ==
    /\ rPc = "loop"
    /\ rTodo = {}
    /\ DOMAIN rList = {"g1", "g2"}
    /\ rCur = "g2"
    /\ lastSync["reconcile"] = "ok"
    /\ "g1" \notin DOMAIN tgt
    /\ "g2" \in DOMAIN tgt
    /\ backends = rList

\* C24: the step of reconcile in which provider.GetBackends fails changes
\* neither m.backends nor the target and runs no apply; reconcile then
\* releases m.mu and is back at the select of periodicSync, where the next
\* tick can fire.
C24_FailedListingSkipsTick ==
    [][/\ (rPc = "list" /\ rPc' = "runlock") =>
             UNCHANGED <<backends, targetVars, syncVars, rTodo>>
       /\ (rPc = "runlock" /\ rPc' # "runlock") =>
             /\ rPc' = "select"
             /\ "reconcile" \notin muReaders'
             /\ UNCHANGED <<backends, targetVars, syncVars>>
       /\ (rPc = "select") => ENABLED PeriodicTick]_vars

\* C24 witness: a tick whose listing failed (the provider has groups, the
\* pass has none) is about to end; m.backends still has what an earlier
\* pass stored.
C24_Witness ==
    /\ rPc = "runlock"
    /\ rList = EmptyMap
    /\ DOMAIN pBackends = {"g1", "g2"}
    /\ backends = pBackends
    /\ DOMAIN tgt = {"g1", "g2"}

\* C26: when GetBackends returns, the map the caller holds has the keys and
\* values of m.backends; afterwards a change the caller makes to that map
\* leaves m.backends as it is (m.backends changes only in a step of the
\* consumer or of reconcile), and a change of m.backends leaves the map the
\* caller holds as it is.
C26_StatusIsSnapshot ==
    [][/\ (stPc = "reading" /\ stPc' = "idle") =>
             /\ stRes'.ref # "none"
             /\ ResultMap' = backends
             /\ backends' = backends
       /\ (backends' # backends) =>
             /\ cPc = "handle" \/ rPc = "loop"
             /\ stRes.ref # "none" => ResultMap' = ResultMap]_vars

\* C26 witness: the caller holds a result with g1 that it got before the
\* engine handled a Delete for g1; m.backends has no g1 any more.
C26_Witness ==
    /\ stRes.ref = "own"
    /\ DOMAIN ResultMap = {"g1"}
    /\ ResultMap["g1"] = Backend("g1", <<SrvA>>)
    /\ "g1" \in cDeleted
    /\ backends = EmptyMap
    /\ stPc = "idle"

CfFailed(op) == \E k \in DOMAIN cf.calls : cf.calls[k].op = op /\ ~cf.calls[k].ok

\* The operation and argument of each call of the returned configureFrontend.
CfOps == [k \in DOMAIN cf.calls |-> <<cf.calls[k].op, cf.calls[k].arg>>]

\* C25: a returned configureFrontend whose APIStartTransaction succeeded
\* has issued FrontendCreate (and FrontendEdit exactly when that failed),
\* the two IPv4 and two IPv6 binds its configuration asks for, the commit,
\* the final commit when the commit succeeded, and the dispose, whichever
\* of the creations failed; and it returns an error exactly when its start,
\* its commit or its final commit failed.
C25_ConfigureToleratesCreations ==
    (cf.pc = "ret") =>
        /\ cf.err <=> (\/ CfFailed("StartTransaction")
                       \/ CfFailed("CommitTransaction")
                       \/ CfFailed("FinalCommitTransaction"))
        /\ cf.calls[1].ok =>
              CfOps =
                  <<<<"StartTransaction", "">>, <<"FrontendCreate", "">>>>
                  \o (IF CfFailed("FrontendCreate")
                      THEN <<<<"FrontendEdit", "">>>> ELSE <<>>)
                  \o <<<<"FrontendBindCreate", "http-ipv4">>>>
                  \o (IF cf.HTTPSEnabled
                      THEN <<<<"FrontendBindCreate", "https-ipv4">>>> ELSE <<>>)
                  \o <<<<"FrontendBindCreate", "http-ipv6">>>>
                  \o (IF cf.HTTPSEnabled
                      THEN <<<<"FrontendBindCreate", "https-ipv6">>>> ELSE <<>>)
                  \o <<<<"CommitTransaction", "">>>>
                  \o (IF CfFailed("CommitTransaction")
                      THEN <<>> ELSE <<<<"FinalCommitTransaction", "">>>>)
                  \o <<<<"DisposeTransaction", "">>>>

\* C25 witness: configureFrontend has run with HTTPS against a target that
\* already had the frontend and its four binds: FrontendCreate and every
\* bind creation failed, and the call committed and returned no error.
C25_Witness ==
    /\ cf.pc = "ret"
    /\ ~cf.err
    /\ cf.HTTPSEnabled
    /\ \A k \in DOMAIN cf.calls :
          cf.calls[k].op \in {"FrontendCreate", "FrontendBindCreate"}
              => ~cf.calls[k].ok
    /\ fe.front
    /\ fe.binds = {"http-ipv4", "https-ipv4", "http-ipv6", "https-ipv6"}

\* C21: once ctx is cancelled, PollingProvider.Start returns (unless the
\* process has ended), Stop never being called.
C21_CancelEndsProvider == ctxDone ~> (pPc \in {"exited", "fatal"})

\* C39: routes whose (host, path) pairs differ get different ACL names: once
\* AddBackendRoute is past its ACLCreate, whether that call succeeded or
\* failed because the name exists, an ACL of that name in the transaction
\* has the criterion of the host and path requested, which is the criterion
\* the switching rule of the call tests.
C39_AclNameIdentifiesRoute ==
    (/\ rt.pc \in {"rule", "commit", "finalCommit"}
     /\ rt.aclName \in DOMAIN fe.txAcls) =>
        fe.txAcls[rt.aclName] = AclCriterion(rt.host, rt.path)

\* C34: the engine with the polling source never deadlocks: in no state is
\* reconcile waiting for p.mu in GetBackends while it holds m.mu shared,
\* pollAndUpdate holding p.mu while its send waits on a full eventChan,
\* and the consumer waiting in m.mu.Lock(), all at once.
C34_NoLockQueueCycle ==
    ~(/\ rPc = "list"
      /\ "reconcile" \in muReaders
      /\ pMu
      /\ pPc = "emit"
      /\ pUp \cup pDel # {}
      /\ Len(eventChan) = QueueCap
      /\ cPc = "lockWait")

\* C35: every mutating call of the engine to the target is issued inside an
\* open transaction; in particular the BackendDelete that handling a Delete
\* notification issues finds a transaction open.
C35_DeleteGroupInTransaction ==
    [][(cPc = "backendDelete" /\ cPc' = "unlock") => txOpen]_vars

\* C37: eventChan is closed only when provider.Start, launched by
\* Manager.Start, has returned, and once it is closed no step sends an
\* event on it.
C37_ClosedAfterProviderReturned ==
    [][/\ chanClosed' => pPc' = "exited"
       /\ chanClosed => inflight' = inflight]_vars

\* C37 witness: Stop was called while a poll was sending; the poll ended
\* with eventChan full, Start returned and then eventChan was closed with
\* these events still buffered.
C37_Witness ==
    /\ chanClosed
    /\ pPc = "exited"
    /\ inflight # <<>>
    /\ Len(eventChan) = QueueCap

\* The number of entries of the server list l equal to s.
Occurrences(l, s) == Cardinality({i \in DOMAIN l : l[i] = s})

\* Groups a and b have the same collection of servers, compared by name,
\* IP and port, whatever the order.
SameServers(a, b) ==
    \A s \in Range(a.Servers) \cup Range(b.Servers) :
        Occurrences(a.Servers, s) = Occurrences(b.Servers, s)

\* C33: backendsEqual is true exactly when the two groups have the same
\* name and the same collection of servers whatever their order, and it is
\* symmetric: so for any stored group a and fetched group b, and for the
\* Update a poll owes for a name in both snapshots.
C33_BackendsEqualIsCollectionEquality ==
    pPc = "emit" =>
        /\ \A a \in Range(pBackends), b \in Range(pNew) :
              /\ backendsEqual(a, b) <=> (a.Name = b.Name /\ SameServers(a, b))
              /\ backendsEqual(a, b) <=> backendsEqual(b, a)
        /\ inflight = <<>> =>
              \A n \in (DOMAIN pBackends) \cap (DOMAIN pNew) :
                  n \in pUp <=> ~SameServers(pBackends[n], pNew[n])

\* The map handleBackendEvent makes of m by handling the events es in
\* order: an upsert for Add and Update, a removal for Delete.
RECURSIVE ApplyEvents(_, _)
ApplyEvents(es, m) ==
    IF es = <<>>
    THEN m
    ELSE ApplyEvents(Tail(es),
                     IF Head(es).Type = BackendEventDelete
                     THEN Remove(m, Head(es).Backend.Name)
                     ELSE Upsert(m, Head(es).Backend))

\* Maps m and n have the same names and under each name the same group, the
\* order of its servers apart.
SameGroups(m, n) ==
    /\ DOMAIN m = DOMAIN n
    /\ \A k \in DOMAIN m : m[k].Name = n[k].Name /\ SameServers(m[k], n[k])

\* C38: when a pollAndUpdate that fetched N with P stored returns, the
\* events it sent, handled in order on a map equal to P, give the groups of
\* N under their names, and p.backends is N.
C38_EventsCarryPToN ==
    [][(pPc = "emit" /\ pPc' = "select") =>
           /\ SameGroups(ApplyEvents(inflight, pBackends), pNew)
           /\ pBackends' = pNew]_vars

\* C38 witness: a poll with g1 stored that fetched g2 alone has returned:
\* it sent Add(g2) then Delete(g1) and p.backends holds g2 alone.
C38_Witness ==
    /\ pPc = "select"
    /\ DOMAIN pBackends = {"g2"}
    /\ Len(inflight) = 2
    /\ inflight[1] = BackendEvent(BackendEventAdd, pBackends["g2"])
    /\ inflight[2].Type = BackendEventDelete
    /\ inflight[2].Backend.Name = "g1"

\* C32: a pollAndUpdate whose fetch fails sends no event and leaves
\* p.backends as it was, and Start, having logged the error, is back at its
\* select; p.backends is only ever replaced by the list a successful poll
\* fetched, so the next successful fetch is diffed against the last one
\* that succeeded (unless the process has ended).
C32_FailedFetchKeepsSnapshot ==
    [][/\ (pPc = "poll" /\ pPc' \notin {"poll", "fatal"}) =>
             \/ /\ pPc' = "failed"
                /\ UNCHANGED <<pBackends, eventChan, inflight, pMu>>
             \/ /\ pPc' = "emit"
                /\ pUp' = ChangedNames(pBackends, pNew')
                /\ pDel' = RemovedNames(pBackends, pNew')
       /\ pPc = "failed" =>
             /\ pPc' \in {"failed", "select", "fatal"}
             /\ Len(eventChan') <= Len(eventChan)
             /\ UNCHANGED <<pBackends, pMu>>
       /\ pBackends' # pBackends =>
             (pPc = "emit" /\ pPc' = "select" /\ pBackends' = pNew)]_vars

\* C32 witness: a poll later than the first has failed, with the snapshot
\* of an earlier poll stored.
C32_Witness ==
    /\ pPc = "failed"
    /\ pBackends # EmptyMap
    /\ inflight # <<>>

\* C36 as amended: a notification that waited during a reconcile pass can
\* put an older snapshot back, but the notifications sent after it follow
\* in the queue: whenever no poll is sending, handling the notifications
\* not handled yet in order leaves m.backends with the groups of
\* p.backends.
C36_QueueLeadsToSnapshot ==
    pPc \notin {"emit", "fatal"} =>
        SameGroups(ApplyEvents(inflight, backends), pBackends)

\* C36: once a reconcile pass has stored and applied the provider's current
\* snapshot of g, no handled Add or Update that was waiting during the pass
\* puts another (older) snapshot of g in m.backends and, through its apply,
\* in the target.
C36_NoStaleReplace ==
    [][\A g \in rApplied :
          (/\ cPc = "handle"
           /\ cPc' = "unlock"
           /\ cEv.Type \in {BackendEventAdd, BackendEventUpdate}
           /\ cEv.Backend.Name = g) =>
              /\ g \in DOMAIN backends
              /\ SameServers(backends'[g], backends[g])]_vars

\* C36 witness: a reconcile pass has stored and applied the current snapshot
\* of g1, two servers, and the consumer is about to handle the Add that
\* waited during the pass with the older one-server snapshot, the Update
\* that carries the current one being next in the queue.
C36_Witness ==
    /\ rApplied = {"g1"}
    /\ cPc = "handle"
    /\ cEv = BackendEvent(BackendEventAdd, Backend("g1", <<SrvA>>))
    /\ backends = MapPut(EmptyMap, "g1", Backend("g1", <<SrvA, SrvB>>))
    /\ tgt = MapPut(EmptyMap, "g1", {SrvA, SrvB})
    /\ pPc = "select"
    /\ pBackends = backends
    /\ eventChan = <<BackendEvent(BackendEventUpdate,
                                  Backend("g1", <<SrvA, SrvB>>))>>

\* C31: from the same map and target, handleBackendEvent has for Add(b) and
\* for Update(b) the same outcomes (map, calls issued to the target in
\* order, target left), and the handling of an event of either type ends
\* as one of the outcomes of the other type.
C31_AddAndUpdateAlike ==
    [][(cPc = "handle" /\ cEv.Type \in {BackendEventAdd, BackendEventUpdate}) =>
          LET add == handleBackendEvent(BackendEvent(BackendEventAdd,
                                                     cEv.Backend))
              upd == handleBackendEvent(BackendEvent(BackendEventUpdate,
                                                     cEv.Backend))
              other == IF cEv.Type = BackendEventAdd THEN upd ELSE add
          IN /\ add = upd
             /\ cPc' = "unlock" =>
                   \E o \in other :
                      /\ backends' = o.backends
                      /\ tgt' = o.t.tgt
                      /\ lastSync'["consumer"] = o.end]_vars

\* C31 witness: the consumer has handled an Update for g1 and its apply
\* went through: the entry and the target's servers are those of the
\* Update.
C31_Witness ==
    /\ cPc = "unlock"
    /\ cEv = BackendEvent(BackendEventUpdate, Backend("g1", <<SrvA, SrvB>>))
    /\ lastSync["consumer"] = "ok"
    /\ backends = MapPut(EmptyMap, "g1", Backend("g1", <<SrvA, SrvB>>))
    /\ tgt = MapPut(EmptyMap, "g1", {SrvA, SrvB})
====
